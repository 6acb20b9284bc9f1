---------------------------- MODULE AccountAccess ----------------------------
(***************************************************************************)
(* Accounts: login with its count of wrong passwords and its lock, the     *)
(* tokens it issues, and what administrators do to accounts (api.py,       *)
(* auth.py, account_security.py, admin_users.py, bootstrap.py).  Each      *)
(* request is a transaction of its own; only a login locks the row it      *)
(* reads.  The session writes the columns that differ from what it read,   *)
(* so the writes of two requests may merge.                                *)
(***************************************************************************)
EXTENDS Integers, FiniteSets

CONSTANTS
  Login,        \* login names, unique in users
  Handler,      \* requests in progress
  Password,
  Place,        \* virtual warehouses of representatives
  Root,         \* BOOTSTRAP_ADMIN_LOGIN
  FirstPassword,  \* password of a new account
  AtFirst,      \* accounts there may be when the server starts
  NoAccount, NoPlace, NoRequest, NoHandler,
  MaxAttempts,  \* _MAX_FAILED_LOGIN_ATTEMPTS
  Attempted,    \* passwords tried at each login
  MaxChanges,   \* bound: changes of accounts
  MaxTokens     \* bound: tokens issued

\* A hash is salted: two hashes of one password differ.
Hash == [word : Password, salt : Nat]
Account ==
  [admin : BOOLEAN, place : Place \cup {NoPlace}, active : BOOLEAN, hash : Hash,
   failed : 0..MaxAttempts, lock : {"none", "future", "past"}]

\* A token names its account and carries the fingerprint of the hash.
Token == [login : Login, hash : Hash]

LoginIn == [kind : {"login"}, login : Login, word : Password]

\* Requests with one of the tokens T.
ChangePasswordIn(T) == [kind : {"change"}, token : T, word : Password, new : Password]
ResetPasswordIn(T) == [kind : {"reset"}, token : T, login : Login, new : Password]
UserStatusIn(T) == [kind : {"status"}, token : T, login : Login, active : BOOLEAN]
\* create_user: a representative with a place, or an administrator.
UserCreateIn(T) ==
  [kind : {"create"}, token : T, login : Login, place : Place \cup {NoPlace}]
UserRequest(T) == ChangePasswordIn(T) \cup ResetPasswordIn(T) \cup UserStatusIn(T) \cup UserCreateIn(T)
Request == LoginIn \cup UserRequest(Token)

ASSUME AccessAssumption ==
  /\ \A a \in AtFirst :
       /\ a \in [Login -> Account \cup {NoAccount}]
       /\ \A u \in Login : a[u] # NoAccount => a[u].hash.salt = 0
  /\ Root \in Login
  /\ FirstPassword \in Password
  /\ Attempted \in [Login -> SUBSET Password]
  /\ MaxAttempts \in Nat \ {0}
  /\ MaxChanges \in Nat
  /\ MaxTokens \in Nat
  /\ NoAccount \notin Account
  /\ NoRequest \notin Request
  /\ NoHandler \notin Handler

VARIABLES
  accounts,  \* rows of users
  changes,   \* changes so far, which also number the changes
  tokens,    \* tokens issued
  holder,    \* the login that locks the row
  pc, job,
  seen,      \* the row a request read
  known,     \* the accounts there were when create_user looked at the place
  wrong      \* wrong passwords since the last login, lock or reset (history)

requests == <<pc, job, seen, known>>
vars == <<accounts, changes, tokens, holder, requests, wrong>>

Steps == {"idle", "verify", "target", "check", "commit"}

TypeOK ==
  /\ accounts \in [Login -> Account \cup {NoAccount}]
  /\ changes \in Nat
  /\ tokens \subseteq Token
  /\ holder \in [Login -> Handler \cup {NoHandler}]
  /\ pc \in [Handler -> Steps]
  /\ job \in [Handler -> Request \cup {NoRequest}]
  /\ seen \in [Handler -> Account \cup {NoAccount}]
  /\ known \in [Handler -> SUBSET Login]
  /\ wrong \in [Login -> Nat]
  /\ \A h \in Handler :
       /\ pc[h] = "idle" <=> job[h] = NoRequest
       /\ pc[h] \in {"verify", "target"} => seen[h] # NoAccount
       /\ \A u \in Login : holder[u] = h => pc[h] = "verify" /\ job[h].login = u

Init ==
  /\ accounts \in AtFirst
  /\ changes = 0
  /\ tokens = {}
  /\ holder = [u \in Login |-> NoHandler]
  /\ pc = [h \in Handler |-> "idle"]
  /\ job = [h \in Handler |-> NoRequest]
  /\ seen = [h \in Handler |-> NoAccount]
  /\ known = [h \in Handler |-> {}]
  /\ wrong = [u \in Login |-> 0]

-----------------------------------------------------------------------------
Goto(h, step) == pc' = [pc EXCEPT ![h] = step]
Exists(u) == accounts[u] # NoAccount
Unlocked(u) == holder[u] = NoHandler

\* Mutant: the row stays locked.
FinishLocked(h) ==
  /\ Goto(h, "idle")
  /\ job' = [job EXCEPT ![h] = NoRequest]
  /\ seen' = [seen EXCEPT ![h] = NoAccount]
  /\ known' = [known EXCEPT ![h] = {}]
  /\ UNCHANGED holder

\* The transaction ends, its lock goes, and the response is sent.
Finish(h) ==
  /\ Goto(h, "idle")
  /\ job' = [job EXCEPT ![h] = NoRequest]
  /\ seen' = [seen EXCEPT ![h] = NoAccount]
  /\ known' = [known EXCEPT ![h] = {}]
  /\ holder' = [u \in Login |-> IF holder[u] = h THEN NoHandler ELSE holder[u]]

\* The columns that the request changed; the others keep what they are now.
Merged(old, new, now) ==
  [admin |-> now.admin, place |-> now.place,
   active |-> IF new.active = old.active THEN now.active ELSE new.active,
   hash   |-> IF new.hash = old.hash THEN now.hash ELSE new.hash,
   failed |-> IF new.failed = old.failed THEN now.failed ELSE new.failed,
   lock   |-> IF new.lock = old.lock THEN now.lock ELSE new.lock]

Update(u, old, new) == accounts' = [accounts EXCEPT ![u] = Merged(old, new, @)]

\* Mutant: the hash has no salt.
Unsalted(word) == [word |-> word, salt |-> 0]

\* hash_password.
Hashed(word) == [word |-> word, salt |-> changes + 1]

\* Bound: no more accounts are changed than MaxChanges.
MayChange ==
  changes + Cardinality({h \in Handler : pc[h] \notin {"idle", "verify"}}) < MaxChanges

\* A request is taken up with its first SELECT; refused there, it has changed nothing.
Accept(h, q, step) ==
  /\ pc[h] = "idle"
  /\ job' = [job EXCEPT ![h] = q]
  /\ Goto(h, step)

-----------------------------------------------------------------------------
\* Mutant: SELECT without FOR UPDATE.
NotTaken(h, u) == holder

Taken(h, u) == [holder EXCEPT ![u] = h]

\* _authenticate: SELECT FOR UPDATE; an unknown, disabled or locked account is refused.
ReadAccount(h, q) ==
  LET e == accounts[q.login]
  IN  /\ Unlocked(q.login)
      /\ Exists(q.login) /\ e.active /\ e.lock # "future"
      /\ Accept(h, q, "verify")
      /\ holder' = Taken(h, q.login)
      /\ seen' = [seen EXCEPT ![h] = e]
      /\ UNCHANGED <<accounts, changes, tokens, known, wrong>>

\* A lock that ran out is lifted with its count.
Attempts(e) == IF e.lock = "past" THEN 0 ELSE e.failed
Counted(e, n) ==
  [e EXCEPT !.failed = IF n >= MaxAttempts THEN 0 ELSE n,
            !.lock = IF n >= MaxAttempts THEN "future" ELSE "none"]

\* The password is verified, the counter written and the transaction committed;
\* the token is made from the row that was read.
VerifyPassword(h) ==
  LET u == job[h].login
      e == seen[h]
      n == Attempts(e) + 1
  IN  /\ pc[h] = "verify"
      /\ \/ /\ job[h].word = e.hash.word
            /\ Update(u, e, Counted(e, 0))
            /\ tokens' = tokens \cup {[login |-> u, hash |-> e.hash]}
            /\ Cardinality(tokens') <= MaxTokens
            /\ wrong' = [wrong EXCEPT ![u] = 0]
         \/ /\ job[h].word # e.hash.word
            /\ Update(u, e, Counted(e, n))
            /\ wrong' = [wrong EXCEPT ![u] = IF n >= MaxAttempts THEN 0 ELSE @ + 1]
            /\ UNCHANGED tokens
      /\ Finish(h)
      /\ UNCHANGED changes

-----------------------------------------------------------------------------
\* get_current_user: a token is good while its account is active and has the hash.
Current(t) ==
  /\ Exists(t.login)
  /\ accounts[t.login].active
  /\ accounts[t.login].hash = t.hash

\* require_roles.
Allowed(q) == q.kind = "change" \/ accounts[q.token.login].admin

NewPassword(e, q) == q.new # e.hash.word

\* change_password asks for the current password.
Changeable(q) ==
  LET e == accounts[q.token.login]
  IN  q.word = e.hash.word /\ NewPassword(e, q)

Admit(h, q) ==
  /\ Current(q.token) /\ Allowed(q)
  /\ q.kind = "change" => Changeable(q)
  /\ MayChange
  /\ Accept(h, q, CASE q.kind = "change" -> "commit"
                     [] q.kind = "create" -> "check"
                     [] OTHER -> "target")
  /\ seen' = [seen EXCEPT ![h] = IF q.kind = "create" THEN @ ELSE accounts[q.token.login]]
  /\ UNCHANGED <<accounts, changes, tokens, holder, known, wrong>>

\* Mutant: set_user_status lets an administrator disable himself.
AnyStatus(e, q) == q.kind = "reset" => NewPassword(e, q)

Permitted(e, q) ==
  IF q.kind = "reset" THEN NewPassword(e, q)
  ELSE q.login = q.token.login => q.active

\* reset_user_password and set_user_status load the account; their own is loaded already.
ReadTarget(h) ==
  LET q == job[h]
      e == IF q.login = q.token.login THEN seen[h] ELSE accounts[q.login]
  IN  /\ pc[h] = "target"
      /\ IF e # NoAccount /\ Permitted(e, q)
         THEN /\ seen' = [seen EXCEPT ![h] = e]
              /\ Goto(h, "commit")
              /\ UNCHANGED <<holder, job, known>>
         ELSE Finish(h)
      /\ UNCHANGED <<accounts, changes, tokens, wrong>>

\* Representatives of a virtual warehouse.
Keepers(p) == {u \in Login : Exists(u) /\ accounts[u].place = p}

\* Mutant: nobody looks who has the warehouse.
AnyPlace(p) == TRUE

Vacant(p) == p = NoPlace \/ Keepers(p) = {}

\* create_user: SELECTs of the login and of the place.
CheckNewUser(h) ==
  LET q == job[h]
  IN  /\ pc[h] = "check"
      /\ IF ~Exists(q.login) /\ Vacant(q.place)
         THEN /\ known' = [known EXCEPT ![h] = {u \in Login : Exists(u)}]
              /\ Goto(h, "commit")
              /\ UNCHANGED <<holder, job, seen>>
         ELSE Finish(h)
      /\ UNCHANGED <<accounts, changes, tokens, wrong>>

\* What a request makes of the row it read.
Changed(e, q) ==
  CASE q.kind = "change" -> [e EXCEPT !.hash = Hashed(q.new)]
    [] q.kind = "reset"  -> [e EXCEPT !.hash = Hashed(q.new), !.failed = 0, !.lock = "none"]
    [] q.kind = "status" -> [e EXCEPT !.active = q.active]

\* UPDATE and COMMIT; the UPDATE waits for a login that holds the row.
CommitAccount(h) ==
  LET q == job[h]
      u == IF q.kind = "change" THEN q.token.login ELSE q.login
      e == Changed(seen[h], q)
  IN  /\ pc[h] = "commit"
      /\ q.kind # "create"
      /\ e # seen[h] => Unlocked(u)
      /\ Update(u, seen[h], e)
      /\ changes' = changes + 1
      /\ wrong' = IF q.kind = "reset" THEN [wrong EXCEPT ![u] = 0] ELSE wrong
      /\ Finish(h)
      /\ UNCHANGED tokens

NewAccount(place) ==
  [admin |-> place = NoPlace, place |-> place, active |-> TRUE, hash |-> Hashed(FirstPassword),
   failed |-> 0, lock |-> "none"]

\* INSERT and COMMIT; the login is unique, the place is not.
CreateUser(h) ==
  LET q == job[h]
  IN  /\ pc[h] = "commit"
      /\ q.kind = "create"
      /\ IF Exists(q.login) THEN UNCHANGED <<accounts, changes>>
         ELSE /\ accounts' = [accounts EXCEPT ![q.login] = NewAccount(q.place)]
              /\ changes' = changes + 1
      /\ Finish(h)
      /\ UNCHANGED <<tokens, wrong>>

-----------------------------------------------------------------------------
\* The connection to the database is lost before the commit.
Lose(h) ==
  /\ pc[h] # "idle"
  /\ Finish(h)
  /\ UNCHANGED <<accounts, changes, tokens, wrong>>

\* Five minutes pass.
Expire(u) ==
  /\ Exists(u)
  /\ accounts[u].lock = "future"
  /\ accounts' = [accounts EXCEPT ![u].lock = "past"]
  /\ UNCHANGED <<changes, tokens, holder, requests, wrong>>

\* The server starts with the bootstrap settings: it creates the first administrator
\* if there is no such login, and leaves an account there is alone.  Requests of the
\* process that stopped are lost one by one.
Bootstrap ==
  /\ ~Exists(Root)
  /\ MayChange
  /\ accounts' = [accounts EXCEPT ![Root] = NewAccount(NoPlace)]
  /\ changes' = changes + 1
  /\ UNCHANGED <<tokens, holder, requests, wrong>>

\* Anybody may log in, and use any token that was ever issued.
Begin(h) ==
  \/ \E q \in LoginIn : q.word \in Attempted[q.login] /\ ReadAccount(h, q)
  \/ \E q \in UserRequest(tokens) : Admit(h, q)

Work(h) ==
  VerifyPassword(h) \/ ReadTarget(h) \/ CheckNewUser(h) \/ CommitAccount(h) \/ CreateUser(h)

Next ==
  \/ \E h \in Handler : Begin(h) \/ Work(h) \/ Lose(h)
  \/ \E u \in Login : Expire(u)
  \/ Bootstrap

Spec == Init /\ [][Next]_vars

-----------------------------------------------------------------------------
\* However many logins run at once, in however many servers, no more wrong
\* passwords are tried than the limit before the account is locked; only a login
\* that succeeds or a reset starts a new count (_authenticate, API.md).
AttemptsLimited == \A u \in Login : wrong[u] < MaxAttempts

\* Administrators cannot disable themselves, so the last active one falls only to
\* a request of another that was disabled while his request was in progress
\* (set_user_status looks at its own account once, without a lock).
Administrators == {u \in Login : Exists(u) /\ accounts[u].admin /\ accounts[u].active}
LastAdminFallsToRace ==
  [][Administrators # {} /\ Administrators' = {} =>
       \E h \in Handler :
         /\ CommitAccount(h)
         /\ job[h].kind = "status"
         /\ ~accounts[job[h].token.login].active]_vars

\* A virtual warehouse gets a second representative only when the first was created
\* after the request had looked (create_user; no constraint of the table backs it).
SharedOnlyByRace ==
  [][\A h \in Handler :
       CreateUser(h) /\ accounts' # accounts /\ job[h].place # NoPlace =>
         Keepers(job[h].place) \cap known[h] = {}]_vars

\* A token whose password was changed or reset is never good again, not even when
\* the same password returns (_password_fingerprint, API.md).
OldTokensStayDead ==
  [][\A t \in tokens : accounts[t.login].hash # t.hash => accounts'[t.login].hash # t.hash]_vars
=============================================================================
