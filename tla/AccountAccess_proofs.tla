-------------------------- MODULE AccountAccess_proofs --------------------------
(***************************************************************************)
(* Proofs about AccountAccess for any number of accounts, passwords,       *)
(* tokens and concurrent requests.                                         *)
(***************************************************************************)
EXTENDS AccountAccess, TLAPS

-----------------------------------------------------------------------------
(***************************************************************************)
(* The inductive invariant.                                                *)
(***************************************************************************)

\* The account a request changes or creates.
Subject(q) == IF q.kind = "change" THEN q.token.login ELSE q.login

\* A login that verifies a password holds the row, and it is as it was read.
VerifyInv(h) ==
  pc[h] = "verify" =>
    /\ job[h] \in LoginIn
    /\ holder[job[h].login] = h
    /\ accounts[job[h].login] = seen[h]
    /\ seen[h].lock # "future"

\* Another request was admitted with the token of an account, which is an
\* administrator's unless the request changes his own password.
RequestInv(h) ==
  pc[h] \in {"target", "check", "commit"} =>
    /\ job[h] \in UserRequest(Token)
    /\ Exists(job[h].token.login)
    /\ job[h].kind # "change" => accounts[job[h].token.login].admin
    /\ pc[h] = "target" => job[h].kind \in {"reset", "status"}
    /\ pc[h] = "check" => job[h].kind = "create"

\* What was true when the request looked, and cannot have changed.
CommitInv(h) ==
  pc[h] = "commit" =>
    /\ job[h].kind # "create" => seen[h] # NoAccount /\ Exists(Subject(job[h]))
    /\ job[h].kind = "status" /\ job[h].login = job[h].token.login => job[h].active
    /\ job[h].kind = "create" /\ job[h].place # NoPlace =>
         Keepers(job[h].place) \cap known[h] = {}

\* What a request has noted is not newer than the accounts.
SeenInv(h) ==
  /\ known[h] \subseteq {u \in Login : Exists(u)}
  /\ seen[h] # NoAccount => seen[h].hash.salt <= changes

HandlerInv(h) == VerifyInv(h) /\ RequestInv(h) /\ CommitInv(h) /\ SeenInv(h)

\* No hash is newer than the last change; a token is of an account.
SaltInv ==
  /\ \A u \in Login : Exists(u) => accounts[u].hash.salt <= changes
  /\ \A t \in tokens : Exists(t.login) /\ t.hash.salt <= changes

\* The column counts no less than was tried, and a locked account starts anew.
CountInv ==
  \A u \in Login :
    /\ wrong[u] < MaxAttempts
    /\ Exists(u) /\ accounts[u].lock = "none" => wrong[u] <= accounts[u].failed
    /\ ~Exists(u) \/ accounts[u].lock # "none" => wrong[u] = 0

IInv ==
  /\ TypeOK
  /\ \A h \in Handler : HandlerInv(h)
  /\ SaltInv
  /\ CountInv

\* The initial state satisfies the invariant.
LEMMA InitInv == Init => IInv
<1> SUFFICES ASSUME Init PROVE IInv
  OBVIOUS
<1> USE AccessAssumption DEF Init
<1>1. TypeOK
  BY DEF TypeOK, Steps
<1>2. \A h \in Handler : HandlerInv(h)
  BY DEF HandlerInv, VerifyInv, RequestInv, CommitInv, SeenInv
<1>3. SaltInv
  BY DEF SaltInv, Exists
<1>4. CountInv
  BY DEF CountInv, Exists, Account
<1> QED
  BY <1>1, <1>2, <1>3, <1>4 DEF IInv

-----------------------------------------------------------------------------
(***************************************************************************)
(* Facts about the operators.                                              *)
(***************************************************************************)

\* A row that is there is an account, and so is what a request has read.
LEMMA RowIsAccount ==
  ASSUME TypeOK
  PROVE  /\ \A u \in Login : Exists(u) => accounts[u] \in Account
         /\ \A h \in Handler : seen[h] # NoAccount => seen[h] \in Account
BY DEF TypeOK, Exists

\* The requests by their kind.
LEMMA RequestFields ==
  ASSUME NEW q \in UserRequest(Token)
  PROVE  /\ q \in Request
         /\ q.kind \in {"change", "reset", "status", "create"}
         /\ q.token \in Token
         /\ q.token.login \in Login
         /\ Subject(q) \in Login
         /\ q.kind # "change" => q.login \in Login
         /\ q.kind \in {"change", "reset"} => q.new \in Password
         /\ q.kind = "status" => q.active \in BOOLEAN
         /\ q.kind = "create" => q.place \in Place \cup {NoPlace}
BY DEF UserRequest, ChangePasswordIn, ResetPasswordIn, UserStatusIn, UserCreateIn, Request,
       Token, Subject

\* Fewer tokens make fewer requests.
LEMMA RequestsOfTokens ==
  ASSUME TypeOK
  PROVE  \A q \in UserRequest(tokens) : q \in UserRequest(Token) /\ q.token \in tokens
BY DEF TypeOK, UserRequest, ChangePasswordIn, ResetPasswordIn, UserStatusIn, UserCreateIn

\* Merging keeps what no request writes.
LEMMA MergedAccount ==
  ASSUME NEW old \in Account, NEW new \in Account, NEW now \in Account
  PROVE  /\ Merged(old, new, now) \in Account
         /\ Merged(old, new, now).admin = now.admin
         /\ Merged(old, new, now).place = now.place
BY DEF Merged, Account

\* A hash that is made is new.
LEMMA HashedIsNew ==
  ASSUME NEW word \in Password, changes \in Nat
  PROVE  Hashed(word) \in Hash /\ Hashed(word).salt = changes + 1
BY DEF Hashed, Hash
\* A counted account is one, and counting touches two columns.
LEMMA CountedAccount ==
  ASSUME NEW e \in Account, NEW n \in Nat
  PROVE  /\ Counted(e, n) \in Account
         /\ Counted(e, n).admin = e.admin
         /\ Counted(e, n).place = e.place
         /\ Counted(e, n).active = e.active
         /\ Counted(e, n).hash = e.hash
         /\ Counted(e, n).failed = IF n >= MaxAttempts THEN 0 ELSE n
         /\ Counted(e, n).lock = IF n >= MaxAttempts THEN "future" ELSE "none"
         /\ Merged(e, Counted(e, n), e) = Counted(e, n)
<1> DEFINE f == IF n >= MaxAttempts THEN 0 ELSE n
           k == IF n >= MaxAttempts THEN "future" ELSE "none"
<1>1. f \in 0..MaxAttempts /\ k \in {"none", "future", "past"}
  BY AccessAssumption
<1>2. Counted(e, n) = [e EXCEPT !.failed = f, !.lock = k]
  BY DEF Counted
<1> HIDE DEF f, k
<1>3. Counted(e, n) = [admin |-> e.admin, place |-> e.place, active |-> e.active, hash |-> e.hash,
                       failed |-> f, lock |-> k]
  BY <1>2 DEF Account
<1>4. Counted(e, n) \in Account
  BY <1>1, <1>3 DEF Account
<1>5. Merged(e, Counted(e, n), e) = Counted(e, n)
  BY <1>3 DEF Merged
<1> QED
  BY <1>3, <1>4, <1>5 DEF f, k

-----------------------------------------------------------------------------
(***************************************************************************)
(* What the steps have in common.                                          *)
(***************************************************************************)

\* Accounts stay, and nobody changes their role or place.
Grows ==
  \A u \in Login :
    Exists(u) => /\ accounts'[u] # NoAccount
                 /\ accounts'[u].admin = accounts[u].admin
                 /\ accounts'[u].place = accounts[u].place

\* A request that takes no step is not disturbed, while the row it holds is not written.
LEMMA OthersInv ==
  ASSUME IInv, Grows, NEW g \in Handler,
         pc'[g] = pc[g], job'[g] = job[g], seen'[g] = seen[g], known'[g] = known[g],
         \A u \in Login : holder[u] = g => holder'[u] = g /\ accounts'[u] = accounts[u],
         changes' \in Nat, changes <= changes'
  PROVE  HandlerInv(g)'
<1>1. HandlerInv(g) /\ changes \in Nat /\ \A u \in Login : Exists(u) => Exists(u)'
  BY DEF IInv, Grows, TypeOK, Exists
<1>2. VerifyInv(g)'
  <2>1. job[g] \in LoginIn => job[g].login \in Login
    BY DEF LoginIn
  <2> QED
    BY <1>1, <2>1 DEF HandlerInv, VerifyInv
<1>3. RequestInv(g)'
  <2> SUFFICES ASSUME pc[g] \in {"target", "check", "commit"}
               PROVE  /\ Exists(job[g].token.login)'
                      /\ job[g].kind # "change" => accounts'[job[g].token.login].admin
    BY <1>1 DEF HandlerInv, RequestInv, Exists
  <2>1. job[g] \in UserRequest(Token) /\ Exists(job[g].token.login)
    BY <1>1 DEF HandlerInv, RequestInv
  <2>2. job[g].token.login \in Login
    BY <2>1, RequestFields
  <2>3. job'[g].token.login = job[g].token.login
    OBVIOUS
  <2> QED
    BY <1>1, <2>1, <2>2 DEF HandlerInv, RequestInv, Grows, Exists
<1>4. CommitInv(g)'
  <2> SUFFICES ASSUME pc[g] = "commit"
               PROVE  /\ job[g].kind # "create" =>
                           seen[g] # NoAccount /\ accounts'[Subject(job[g])] # NoAccount
                      /\ job[g].kind = "status" /\ job[g].login = job[g].token.login => job[g].active
                      /\ job[g].kind = "create" /\ job[g].place # NoPlace =>
                           {u \in Login : /\ accounts'[u] # NoAccount
                                          /\ accounts'[u].place = job[g].place} \cap known[g] = {}
    BY DEF CommitInv, Keepers, Exists, Subject
  <2>1. job[g] \in UserRequest(Token)
    BY <1>1 DEF HandlerInv, RequestInv
  <2>2. Subject(job[g]) \in Login
    BY <2>1, RequestFields
  <2>3. CommitInv(g)
    BY <1>1 DEF HandlerInv
  <2>4. \A u \in known[g] : Exists(u) /\ u \in Login
    BY <1>1 DEF HandlerInv, SeenInv
  <2>5. \A u \in known[g] : accounts'[u].place = accounts[u].place
    BY <2>4 DEF Grows
  <2> QED
    BY <2>2, <2>3, <2>4, <2>5 DEF CommitInv, Keepers, Grows, Exists
<1>5. SeenInv(g)'
  <2>1. seen[g] # NoAccount => seen[g].hash.salt \in Nat
    BY RowIsAccount DEF IInv, Account, Hash
  <2> QED
    BY <1>1, <2>1 DEF HandlerInv, SeenInv
<1> QED
  BY <1>2, <1>3, <1>4, <1>5 DEF HandlerInv

\* A request that ends.
LEMMA FinishInv ==
  ASSUME IInv, Grows, NEW h \in Handler, Finish(h),
         \A u \in Login : holder[u] # NoHandler /\ holder[u] # h => accounts'[u] = accounts[u],
         changes' \in Nat, changes <= changes'
  PROVE  \A g \in Handler : HandlerInv(g)'
<1> USE DEF Finish, Goto
<1>1. pc \in [Handler -> Steps] /\ job \in [Handler -> Request \cup {NoRequest}]
      /\ seen \in [Handler -> Account \cup {NoAccount}] /\ known \in [Handler -> SUBSET Login]
      /\ holder \in [Login -> Handler \cup {NoHandler}]
  BY DEF IInv, TypeOK
<1> SUFFICES ASSUME NEW g \in Handler PROVE HandlerInv(g)'
  OBVIOUS
<1>2. CASE g # h
  <2>1. pc'[g] = pc[g] /\ job'[g] = job[g] /\ seen'[g] = seen[g] /\ known'[g] = known[g]
    BY <1>1, <1>2
  <2>2. \A u \in Login : holder[u] = g => holder'[u] = g /\ accounts'[u] = accounts[u]
    BY <1>1, <1>2, AccessAssumption
  <2> QED
    BY <2>1, <2>2, OthersInv
<1>3. CASE g = h
  <2>1. pc'[g] = "idle" /\ seen'[g] = NoAccount /\ known'[g] = {}
    BY <1>1, <1>3
  <2> QED
    BY <2>1 DEF HandlerInv, VerifyInv, RequestInv, CommitInv, SeenInv
<1> QED
  BY <1>2, <1>3

\* A request that ends keeps the types of what belongs to requests.
LEMMA FinishType ==
  ASSUME TypeOK, NEW h \in Handler, Finish(h),
         accounts' \in [Login -> Account \cup {NoAccount}],
         changes' \in Nat, tokens' \subseteq Token, wrong' \in [Login -> Nat]
  PROVE  TypeOK'
<1>1. /\ holder' \in [Login -> Handler \cup {NoHandler}]
      /\ pc' \in [Handler -> Steps]
      /\ job' \in [Handler -> Request \cup {NoRequest}]
      /\ seen' \in [Handler -> Account \cup {NoAccount}]
      /\ known' \in [Handler -> SUBSET Login]
  BY DEF TypeOK, Finish, Goto, Steps
<1>2. \A g \in Handler :
        /\ pc'[g] = "idle" <=> job'[g] = NoRequest
        /\ pc'[g] \in {"verify", "target"} => seen'[g] # NoAccount
  BY DEF TypeOK, Finish, Goto
<1>3. \A g \in Handler, u \in Login : holder'[u] = g => pc'[g] = "verify" /\ job'[g].login = u
  BY AccessAssumption DEF TypeOK, Finish, Goto
<1> QED
  BY <1>1, <1>2, <1>3 DEF TypeOK

\* A request that goes on keeps the rows and what others do.
LEMMA GoOnOthers ==
  ASSUME IInv, NEW h \in Handler, NEW g \in Handler \ {h},
         UNCHANGED <<accounts, changes>>,
         pc'[g] = pc[g], job'[g] = job[g], seen'[g] = seen[g], known'[g] = known[g],
         \A u \in Login : holder[u] = g => holder'[u] = g
  PROVE  HandlerInv(g)'
<1>1. Grows
  BY DEF Grows, Exists
<1>2. changes' \in Nat /\ changes <= changes'
  BY DEF IInv, TypeOK
<1> QED
  BY <1>1, <1>2, OthersInv

\* While no row, token or count changes, what is said of them stays true.
LEMMA RowsKept ==
  ASSUME IInv, UNCHANGED <<accounts, changes, tokens, wrong>>
  PROVE  SaltInv' /\ CountInv'
BY DEF IInv, SaltInv, CountInv, Exists
-----------------------------------------------------------------------------
(***************************************************************************)
(* Every action preserves the invariant.                                   *)
(***************************************************************************)

\* A login takes the row it reads.
LEMMA ReadAccountInv ==
  ASSUME IInv, NEW h \in Handler, NEW q \in LoginIn, ReadAccount(h, q)
  PROVE  IInv'
<1>1. /\ pc[h] = "idle" /\ holder[q.login] = NoHandler
      /\ accounts[q.login] # NoAccount /\ accounts[q.login].lock # "future"
      /\ pc' = [pc EXCEPT ![h] = "verify"]
      /\ job' = [job EXCEPT ![h] = q]
      /\ holder' = [holder EXCEPT ![q.login] = h]
      /\ seen' = [seen EXCEPT ![h] = accounts[q.login]]
      /\ UNCHANGED <<accounts, changes, tokens, known, wrong>>
  BY DEF ReadAccount, Accept, Goto, Taken, Unlocked, Exists
<1>2. q.login \in Login /\ q \in Request
  BY DEF LoginIn, Request
<1>3. TypeOK'
  <2>1. /\ pc' \in [Handler -> Steps]
        /\ job' \in [Handler -> Request \cup {NoRequest}]
        /\ seen' \in [Handler -> Account \cup {NoAccount}]
        /\ holder' \in [Login -> Handler \cup {NoHandler}]
    BY <1>1, <1>2 DEF IInv, TypeOK, Steps
  <2>2. \A g \in Handler :
          /\ pc'[g] = "idle" <=> job'[g] = NoRequest
          /\ pc'[g] \in {"verify", "target"} => seen'[g] # NoAccount
    BY <1>1, <1>2, AccessAssumption DEF IInv, TypeOK
  <2>3. \A g \in Handler, u \in Login : holder'[u] = g => pc'[g] = "verify" /\ job'[g].login = u
    BY <1>1, <1>2 DEF IInv, TypeOK
  <2> QED
    BY <1>1, <2>1, <2>2, <2>3 DEF IInv, TypeOK
<1>4. ASSUME NEW g \in Handler
      PROVE  HandlerInv(g)'
  <2>1. CASE g # h
    <3>1. pc'[g] = pc[g] /\ job'[g] = job[g] /\ seen'[g] = seen[g] /\ known'[g] = known[g]
      BY <1>1, <2>1 DEF IInv, TypeOK
    <3>2. \A u \in Login : holder[u] = g => holder'[u] = g
      BY <1>1, <2>1, AccessAssumption DEF IInv, TypeOK
    <3> QED
      BY <1>1, <2>1, <3>1, <3>2, GoOnOthers
  <2>2. CASE g = h
    <3>1. pc'[h] = "verify" /\ job'[h] = q /\ seen'[h] = accounts[q.login] /\ holder'[q.login] = h
      BY <1>1, <1>2 DEF IInv, TypeOK
    <3>2. accounts[q.login].hash.salt <= changes /\ known[h] \subseteq {u \in Login : Exists(u)}
      BY <1>1, <1>2 DEF IInv, SaltInv, HandlerInv, SeenInv, Exists
    <3> QED
      BY <1>1, <2>2, <3>1, <3>2 DEF HandlerInv, VerifyInv, RequestInv, CommitInv, SeenInv, Exists
  <2> QED
    BY <2>1, <2>2
<1> QED
  BY <1>1, <1>3, <1>4, RowsKept DEF IInv

\* What a login writes: with the row held, the columns it has counted.
LEMMA VerifyEffect ==
  ASSUME IInv, NEW h \in Handler, VerifyPassword(h)
  PROVE  LET u == job[h].login
             e == accounts[u]
         IN  /\ pc[h] = "verify"
             /\ u \in Login /\ e \in Account /\ Exists(u) /\ holder[u] = h
             /\ e.lock # "future"
             /\ Finish(h) /\ changes' = changes
             /\ \E n \in {0, Attempts(e) + 1} :
                  /\ accounts' = [accounts EXCEPT ![u] = Counted(e, n)]
                  /\ wrong' = [wrong EXCEPT ![u] = IF n >= MaxAttempts \/ n = 0 THEN 0 ELSE @ + 1]
                  /\ tokens' = IF n = 0 THEN tokens \cup {[login |-> u, hash |-> e.hash]} ELSE tokens
<1> DEFINE u == job[h].login
           e == accounts[u]
<1>1. pc[h] = "verify" /\ job[h] \in LoginIn /\ holder[u] = h /\ e = seen[h] /\ e.lock # "future"
  BY DEF VerifyPassword, IInv, HandlerInv, VerifyInv
<1>2. u \in Login
  BY <1>1 DEF LoginIn
<1>3. Exists(u)
  BY <1>1 DEF IInv, TypeOK, Exists
<1>4. e \in Account
  BY <1>2, <1>3, RowIsAccount DEF IInv
<1>5. Attempts(e) \in Nat /\ MaxAttempts \in Nat \ {0}
  BY <1>4, AccessAssumption DEF Attempts, Account
<1>6. ASSUME NEW n \in Nat
      PROVE  Counted(e, n) \in Account /\ Merged(e, Counted(e, n), e) = Counted(e, n)
  BY <1>4, CountedAccount
<1>7. CASE job[h].word = e.hash.word
  <2>1. Update(u, e, Counted(e, 0))
    BY <1>1, <1>7 DEF VerifyPassword
  <2>2. accounts' = [accounts EXCEPT ![u] = Counted(e, 0)]
    BY <2>1, <1>2, <1>5, <1>6 DEF Update, IInv, TypeOK
  <2>3. tokens' = tokens \cup {[login |-> u, hash |-> e.hash]} /\ wrong' = [wrong EXCEPT ![u] = 0]
    BY <1>1, <1>7 DEF VerifyPassword
  <2> QED
    BY <1>1, <1>2, <1>3, <1>4, <2>2, <2>3 DEF VerifyPassword
<1>8. CASE job[h].word # e.hash.word
  <2> DEFINE n == Attempts(e) + 1
  <2>1. Update(u, e, Counted(e, n))
    BY <1>1, <1>8 DEF VerifyPassword
  <2>2. accounts' = [accounts EXCEPT ![u] = Counted(e, n)]
    <3>1. n \in Nat
      BY <1>5
    <3>2. Merged(e, Counted(e, n), e) = Counted(e, n)
      BY <1>6, <3>1
    <3> HIDE DEF n
    <3> QED
      BY <2>1, <1>2, <3>2 DEF Update, IInv, TypeOK
  <2>3. tokens' = tokens /\ wrong' = [wrong EXCEPT ![u] = IF n >= MaxAttempts THEN 0 ELSE @ + 1]
    BY <1>1, <1>8 DEF VerifyPassword
  <2>4. n # 0
    BY <1>5
  <2> QED
    BY <1>1, <1>2, <1>3, <1>4, <2>2, <2>3, <2>4 DEF VerifyPassword
<1> QED
  BY <1>7, <1>8

\* The verification of a password.
LEMMA VerifyPasswordInv ==
  ASSUME IInv, NEW h \in Handler, VerifyPassword(h)
  PROVE  IInv'
<1> DEFINE u == job[h].login
           e == accounts[u]
<1>1. /\ u \in Login /\ e \in Account /\ Exists(u) /\ holder[u] = h /\ e.lock # "future"
      /\ Finish(h) /\ changes' = changes
  BY VerifyEffect
<1>2. PICK n \in {0, Attempts(e) + 1} :
        /\ accounts' = [accounts EXCEPT ![u] = Counted(e, n)]
        /\ wrong' = [wrong EXCEPT ![u] = IF n >= MaxAttempts \/ n = 0 THEN 0 ELSE @ + 1]
        /\ tokens' = IF n = 0 THEN tokens \cup {[login |-> u, hash |-> e.hash]} ELSE tokens
  BY VerifyEffect
<1>3. Attempts(e) \in Nat /\ n \in Nat /\ MaxAttempts \in Nat \ {0} /\ changes \in Nat
  BY <1>1, AccessAssumption DEF Attempts, Account, IInv, TypeOK
<1>4. /\ Counted(e, n) \in Account
      /\ Counted(e, n).admin = e.admin /\ Counted(e, n).place = e.place /\ Counted(e, n).hash = e.hash
      /\ Counted(e, n).failed = IF n >= MaxAttempts THEN 0 ELSE n
      /\ Counted(e, n).lock = IF n >= MaxAttempts THEN "future" ELSE "none"
  BY <1>1, <1>3, CountedAccount
<1>5. \A v \in Login : accounts'[v] = IF v = u THEN Counted(e, n) ELSE accounts[v]
  BY <1>2 DEF IInv, TypeOK
<1>6. Grows
  BY <1>4, <1>5, AccessAssumption DEF Grows, Exists
<1>7. \A g \in Handler : HandlerInv(g)'
  BY <1>1, <1>3, <1>5, <1>6, FinishInv
<1>8. TypeOK'
  <2>1. accounts' \in [Login -> Account \cup {NoAccount}]
    BY <1>2, <1>4 DEF IInv, TypeOK
  <2>2. tokens' \subseteq Token
    BY <1>1, <1>2 DEF IInv, TypeOK, Token, Account
  <2>3. wrong' \in [Login -> Nat]
    <3>1. wrong \in [Login -> Nat]
      BY DEF IInv, TypeOK
    <3>2. \A m \in Nat : (IF n >= MaxAttempts \/ n = 0 THEN 0 ELSE m + 1) \in Nat
      OBVIOUS
    <3> QED
      BY <1>1, <1>2, <3>1, <3>2
  <2> QED
    BY <1>1, <1>3, <2>1, <2>2, <2>3, FinishType DEF IInv
<1>9. SaltInv'
  <2>1. \A v \in Login : Exists(v)' => accounts'[v].hash.salt <= changes
    BY <1>1, <1>4, <1>5 DEF IInv, SaltInv, Exists
  <2>2. ASSUME NEW t \in tokens'
        PROVE  accounts'[t.login] # NoAccount /\ t.hash.salt <= changes
    <3>1. t \in Token
      BY <1>8 DEF TypeOK
    <3>2. t.login \in Login
      BY <3>1 DEF Token
    <3>3. t \in tokens \/ (t.login = u /\ t.hash = e.hash)
      BY <1>2
    <3> QED
      BY <1>1, <1>6, <3>2, <3>3 DEF IInv, SaltInv, Grows
  <2> QED
    BY <1>1, <2>1, <2>2 DEF SaltInv, Exists
<1>10. CountInv'
  <2> SUFFICES ASSUME NEW v \in Login
               PROVE  /\ wrong'[v] < MaxAttempts
                      /\ Exists(v)' /\ accounts'[v].lock = "none" => wrong'[v] <= accounts'[v].failed
                      /\ ~Exists(v)' \/ accounts'[v].lock # "none" => wrong'[v] = 0
    BY DEF CountInv
  <2>1. CASE v # u
    BY <1>2, <1>5, <2>1 DEF IInv, TypeOK, CountInv, Exists
  <2>2. CASE v = u
    <3>1. wrong[u] <= Attempts(e) /\ wrong[u] \in Nat
      BY <1>1 DEF IInv, TypeOK, CountInv, Attempts, Account
    <3>2. wrong'[u] = IF n >= MaxAttempts \/ n = 0 THEN 0 ELSE wrong[u] + 1
      BY <1>1, <1>2 DEF IInv, TypeOK
    <3>3. accounts'[u] = Counted(e, n) /\ accounts'[u] # NoAccount
      BY <1>1, <1>4, <1>5, AccessAssumption DEF Exists
    <3>4. n = 0 \/ n = Attempts(e) + 1
      BY <1>2
    <3>5. wrong'[u] < MaxAttempts
      BY <1>3, <3>1, <3>2, <3>4
    <3>6. n < MaxAttempts => wrong'[u] <= n
      BY <1>3, <3>1, <3>2, <3>4
    <3>7. n >= MaxAttempts => wrong'[u] = 0
      BY <1>3, <3>2
    <3> QED
      <4>1. accounts'[v].lock = "none" => wrong'[v] <= accounts'[v].failed
        BY <1>3, <1>4, <2>2, <3>3, <3>6
      <4>2. accounts'[v].lock # "none" => wrong'[v] = 0
        BY <1>3, <1>4, <2>2, <3>3, <3>7
      <4> QED
        BY <2>2, <3>3, <3>5, <4>1, <4>2 DEF Exists
  <2> QED
    BY <2>1, <2>2
<1> QED
  BY <1>7, <1>8, <1>9, <1>10 DEF IInv
\* The admission of a request with a token.
LEMMA AdmitInv ==
  ASSUME IInv, NEW h \in Handler, NEW q \in UserRequest(tokens), Admit(h, q)
  PROVE  IInv'
<1> DEFINE step == CASE q.kind = "change" -> "commit"
                     [] q.kind = "create" -> "check"
                     [] OTHER -> "target"
           t == q.token.login
           read == IF q.kind = "create" THEN seen[h] ELSE accounts[t]
<1>1. /\ q \in UserRequest(Token) /\ q.token \in tokens /\ q \in Request
      /\ q.kind \in {"change", "reset", "status", "create"}
      /\ t \in Login
      /\ Subject(q) \in Login
  BY RequestsOfTokens, RequestFields DEF IInv
<1>2. Exists(t) /\ (q.kind = "change" \/ accounts[t].admin)
  BY DEF Admit, Current, Allowed
<1>3. /\ pc[h] = "idle"
      /\ pc' = [pc EXCEPT ![h] = step]
      /\ job' = [job EXCEPT ![h] = q]
      /\ seen' = [seen EXCEPT ![h] = read]
      /\ UNCHANGED <<accounts, changes, tokens, holder, known, wrong>>
  BY DEF Admit, Accept, Goto
<1>4. /\ step \in {"target", "check", "commit"}
      /\ step = "target" <=> q.kind \in {"reset", "status"}
      /\ step = "check" <=> q.kind = "create"
      /\ step = "commit" <=> q.kind = "change"
  BY <1>1
<1> HIDE DEF step
<1>5. read \in Account \cup {NoAccount} /\ (q.kind # "create" => read = accounts[t] /\ read # NoAccount)
  BY <1>1, <1>2 DEF IInv, TypeOK, Exists
<1>6. read # NoAccount => read.hash.salt <= changes
  BY <1>1, <1>2 DEF IInv, SaltInv, HandlerInv, SeenInv
<1> HIDE DEF read
<1>7. TypeOK'
  <2>1. /\ pc' \in [Handler -> Steps]
        /\ job' \in [Handler -> Request \cup {NoRequest}]
        /\ seen' \in [Handler -> Account \cup {NoAccount}]
    BY <1>1, <1>3, <1>4, <1>5 DEF IInv, TypeOK, Steps
  <2>2. \A g \in Handler :
          /\ pc'[g] = "idle" <=> job'[g] = NoRequest
          /\ pc'[g] \in {"verify", "target"} => seen'[g] # NoAccount
    BY <1>1, <1>3, <1>4, <1>5, AccessAssumption DEF IInv, TypeOK
  <2>3. \A g \in Handler, u \in Login : holder'[u] = g => pc'[g] = "verify" /\ job'[g].login = u
    BY <1>3 DEF IInv, TypeOK
  <2> QED
    BY <1>3, <2>1, <2>2, <2>3 DEF IInv, TypeOK
<1>8. ASSUME NEW g \in Handler
      PROVE  HandlerInv(g)'
  <2>1. CASE g # h
    <3>1. pc'[g] = pc[g] /\ job'[g] = job[g] /\ seen'[g] = seen[g] /\ known'[g] = known[g]
      BY <1>3, <2>1 DEF IInv, TypeOK
    <3> QED
      BY <1>3, <2>1, <3>1, GoOnOthers
  <2>2. CASE g = h
    <3>1. pc'[g] = step /\ job'[g] = q /\ seen'[g] = read /\ known'[g] = known[g]
      BY <1>3, <2>2 DEF IInv, TypeOK
    <3>2. VerifyInv(g)'
      BY <1>4, <3>1 DEF VerifyInv
    <3>3. RequestInv(g)'
      BY <1>1, <1>2, <1>3, <1>4, <3>1 DEF RequestInv, Exists
    <3>4. CommitInv(g)'
      BY <1>2, <1>3, <1>4, <1>5, <3>1 DEF CommitInv, Subject, Exists
    <3>5. SeenInv(g)'
      BY <1>3, <1>6, <3>1 DEF IInv, HandlerInv, SeenInv, Exists
    <3> QED
      BY <3>2, <3>3, <3>4, <3>5 DEF HandlerInv
  <2> QED
    BY <2>1, <2>2
<1> QED
  BY <1>3, <1>7, <1>8, RowsKept DEF IInv

\* A request that goes on to its commit keeps the types.
LEMMA ToCommitType ==
  ASSUME TypeOK, NEW h \in Handler, pc[h] \in {"target", "check"}, Goto(h, "commit"),
         UNCHANGED <<holder, job, accounts, changes, tokens, wrong>>,
         seen' \in [Handler -> Account \cup {NoAccount}],
         \A g \in Handler \ {h} : seen'[g] = seen[g],
         known' \in [Handler -> SUBSET Login]
  PROVE  TypeOK'
<1>1. /\ pc' = [pc EXCEPT ![h] = "commit"]
      /\ pc' \in [Handler -> Steps]
  BY DEF Goto, TypeOK, Steps
<1>2. \A g \in Handler :
        /\ pc'[g] = "idle" <=> job'[g] = NoRequest
        /\ pc'[g] \in {"verify", "target"} => seen'[g] # NoAccount
        /\ \A u \in Login : holder'[u] = g => pc'[g] = "verify" /\ job'[g].login = u
  BY <1>1 DEF TypeOK
<1> QED
  BY <1>1, <1>2 DEF TypeOK

\* A request that ends without a change.
LEMMA EndInv ==
  ASSUME IInv, NEW h \in Handler, Finish(h), UNCHANGED <<accounts, changes, tokens, wrong>>
  PROVE  IInv'
<1>1. Grows
  BY DEF Grows, Exists
<1>2. \A g \in Handler : HandlerInv(g)'
  BY <1>1, FinishInv DEF IInv, TypeOK
<1>3. TypeOK'
  BY FinishType DEF IInv, TypeOK
<1> QED
  BY <1>2, <1>3, RowsKept DEF IInv

\* The SELECT of the account to be changed.
LEMMA ReadTargetInv ==
  ASSUME IInv, NEW h \in Handler, ReadTarget(h)
  PROVE  IInv'
<1> DEFINE q == job[h]
           e == IF q.login = q.token.login THEN seen[h] ELSE accounts[q.login]
<1>1. /\ pc[h] = "target" /\ q \in UserRequest(Token) /\ q.kind \in {"reset", "status"}
      /\ seen[h] # NoAccount /\ Exists(q.token.login)
  BY DEF ReadTarget, IInv, HandlerInv, RequestInv, TypeOK
<1>2. q.login \in Login /\ q.token.login \in Login
  BY <1>1, RequestFields
<1>3. UNCHANGED <<accounts, changes, tokens, wrong>>
  BY DEF ReadTarget
<1>4. CASE Finish(h)
  BY <1>3, <1>4, EndInv
<1>5. CASE /\ e # NoAccount /\ Permitted(e, q)
           /\ seen' = [seen EXCEPT ![h] = e]
           /\ Goto(h, "commit")
           /\ UNCHANGED <<holder, job, known>>
  <2>1. e \in Account /\ Exists(q.login) /\ e.hash.salt <= changes
    BY <1>1, <1>2, <1>5, RowIsAccount DEF IInv, SaltInv, HandlerInv, SeenInv, Exists
  <2>2. q.kind = "status" /\ q.login = q.token.login => q.active
    BY <1>1, <1>5 DEF Permitted
  <2> HIDE DEF e
  <2>3. TypeOK'
    BY <1>1, <1>3, <1>5, <2>1, ToCommitType DEF IInv, TypeOK
  <2>4. ASSUME NEW g \in Handler
        PROVE  HandlerInv(g)'
    <3>1. CASE g # h
      BY <1>3, <1>5, <3>1, GoOnOthers DEF IInv, TypeOK, Goto
    <3>2. CASE g = h
      <4>1. pc'[g] = "commit" /\ job'[g] = q /\ seen'[g] = e /\ known'[g] = known[g]
        BY <1>5, <3>2 DEF IInv, TypeOK, Goto
      <4>2. VerifyInv(g)'
        BY <4>1 DEF VerifyInv
      <4>3. RequestInv(g)'
        BY <1>1, <1>3, <3>2, <4>1 DEF IInv, HandlerInv, RequestInv, Exists
      <4>4. CommitInv(g)'
        BY <1>1, <1>3, <1>5, <2>1, <2>2, <4>1 DEF CommitInv, Subject, Exists
      <4>5. SeenInv(g)'
        BY <1>3, <2>1, <4>1 DEF IInv, HandlerInv, SeenInv, Exists
      <4> QED
        BY <4>2, <4>3, <4>4, <4>5 DEF HandlerInv
    <3> QED
      BY <3>1, <3>2
  <2> QED
    BY <1>3, <2>3, <2>4, RowsKept DEF IInv
<1> QED
  BY <1>4, <1>5 DEF ReadTarget

\* The SELECTs of the login and of the place.
LEMMA CheckNewUserInv ==
  ASSUME IInv, NEW h \in Handler, CheckNewUser(h)
  PROVE  IInv'
<1> DEFINE q == job[h]
<1>1. pc[h] = "check" /\ q \in UserRequest(Token) /\ q.kind = "create"
  BY DEF CheckNewUser, IInv, HandlerInv, RequestInv
<1>2. UNCHANGED <<accounts, changes, tokens, wrong>>
  BY DEF CheckNewUser
<1>3. CASE Finish(h)
  BY <1>2, <1>3, EndInv
<1>4. CASE /\ Vacant(q.place)
           /\ known' = [known EXCEPT ![h] = {u \in Login : Exists(u)}]
           /\ Goto(h, "commit")
           /\ UNCHANGED <<holder, job, seen>>
  <2>1. TypeOK'
    BY <1>1, <1>2, <1>4, ToCommitType DEF IInv, TypeOK
  <2>2. ASSUME NEW g \in Handler
        PROVE  HandlerInv(g)'
    <3>1. CASE g # h
      BY <1>2, <1>4, <3>1, GoOnOthers DEF IInv, TypeOK, Goto
    <3>2. CASE g = h
      <4>1. /\ pc'[g] = "commit" /\ job'[g] = q /\ seen'[g] = seen[g]
            /\ known'[g] = {u \in Login : Exists(u)}
        BY <1>4, <3>2 DEF IInv, TypeOK, Goto
      <4>2. VerifyInv(g)'
        BY <4>1 DEF VerifyInv
      <4>3. RequestInv(g)'
        BY <1>1, <1>2, <3>2, <4>1 DEF IInv, HandlerInv, RequestInv, Exists
      <4>4. q.place # NoPlace => Keepers(q.place) = {}
        BY <1>4 DEF Vacant
      <4>5. CommitInv(g)'
        BY <1>1, <1>2, <4>1, <4>4 DEF CommitInv, Keepers, Exists
      <4>6. SeenInv(g)'
        BY <1>2, <4>1 DEF IInv, HandlerInv, SeenInv, Exists
      <4> QED
        BY <4>2, <4>3, <4>5, <4>6 DEF HandlerInv
    <3> QED
      BY <3>1, <3>2
  <2> QED
    BY <1>2, <2>1, <2>2, RowsKept DEF IInv
<1> QED
  BY <1>3, <1>4 DEF CheckNewUser
\* What a commit makes of the row: the columns that differ from what was read.
LEMMA CommitEffect ==
  ASSUME IInv, NEW h \in Handler, CommitAccount(h)
  PROVE  LET q == job[h]
             u == Subject(q)
             now == accounts[u]
             m == Merged(seen[h], Changed(seen[h], q), now)
         IN  /\ pc[h] = "commit" /\ q \in UserRequest(Token) /\ q.kind \in {"change", "reset", "status"}
             /\ u \in Login /\ Exists(u) /\ now \in Account /\ m \in Account
             /\ accounts' = [accounts EXCEPT ![u] = m]
             /\ m = now \/ holder[u] = NoHandler
             /\ m.admin = now.admin /\ m.place = now.place
             /\ m.active = now.active \/ (q.kind = "status" /\ m.active = q.active)
             /\ m.hash = now.hash \/ m.hash.salt = changes + 1
             /\ m.failed = now.failed \/ q.kind = "reset"
             /\ m.lock = now.lock \/ (q.kind = "reset" /\ m.lock = "none")
             /\ changes' = changes + 1 /\ Finish(h) /\ UNCHANGED tokens
             /\ wrong' = IF q.kind = "reset" THEN [wrong EXCEPT ![u] = 0] ELSE wrong
<1> DEFINE q == job[h]
           u == Subject(q)
           now == accounts[u]
           e == seen[h]
           f == Changed(e, q)
           m == Merged(e, f, now)
<1>1. /\ pc[h] = "commit" /\ q \in UserRequest(Token) /\ q.kind # "create"
      /\ e # NoAccount /\ Exists(u)
  BY DEF CommitAccount, IInv, HandlerInv, RequestInv, CommitInv
<1>2. /\ q.kind \in {"change", "reset", "status"} /\ u \in Login
      /\ q.kind \in {"change", "reset"} => q.new \in Password
      /\ q.kind = "status" => q.active \in BOOLEAN
  BY <1>1, RequestFields
<1>3. e \in Account /\ now \in Account /\ changes \in Nat
  BY <1>1, <1>2, RowIsAccount DEF IInv, TypeOK
<1>4. /\ accounts' = [accounts EXCEPT ![u] = m]
      /\ f # e => holder[u] = NoHandler
      /\ changes' = changes + 1 /\ Finish(h) /\ UNCHANGED tokens
      /\ wrong' = IF q.kind = "reset" THEN [wrong EXCEPT ![u] = 0] ELSE wrong
  BY DEF CommitAccount, Update, Unlocked, Subject
<1>5. /\ f \in Account
      /\ f.hash = e.hash \/ f.hash.salt = changes + 1
      /\ f.active = e.active \/ (q.kind = "status" /\ f.active = q.active)
      /\ f.failed = e.failed \/ q.kind = "reset"
      /\ f.lock = e.lock \/ (q.kind = "reset" /\ f.lock = "none")
  <2>1. q.kind \in {"change", "reset"} => Hashed(q.new) \in Hash /\ Hashed(q.new).salt = changes + 1
    BY <1>2, <1>3, HashedIsNew
  <2>2. CASE q.kind = "change"
    <3>1. f = [e EXCEPT !.hash = Hashed(q.new)]
      BY <2>2 DEF Changed
    <3> QED
      BY <1>3, <2>1, <2>2, <3>1 DEF Account
  <2>3. CASE q.kind = "reset"
    <3>1. f = [e EXCEPT !.hash = Hashed(q.new), !.failed = 0, !.lock = "none"]
      BY <2>3 DEF Changed
    <3>2. 0 \in 0..MaxAttempts
      BY AccessAssumption
    <3>3. f = [admin |-> e.admin, place |-> e.place, active |-> e.active, hash |-> Hashed(q.new),
               failed |-> 0, lock |-> "none"]
      BY <1>3, <3>1 DEF Account
    <3> QED
      BY <1>3, <2>1, <2>3, <3>2, <3>3 DEF Account
  <2>4. CASE q.kind = "status"
    <3>1. f = [e EXCEPT !.active = q.active]
      BY <2>4 DEF Changed
    <3> QED
      BY <1>2, <1>3, <2>4, <3>1 DEF Account
  <2> QED
    BY <1>2, <2>2, <2>3, <2>4
<1> HIDE DEF f
<1>6. m \in Account /\ m.admin = now.admin /\ m.place = now.place
  BY <1>3, <1>5, MergedAccount
<1>7. /\ m.active = IF f.active = e.active THEN now.active ELSE f.active
      /\ m.hash = IF f.hash = e.hash THEN now.hash ELSE f.hash
      /\ m.failed = IF f.failed = e.failed THEN now.failed ELSE f.failed
      /\ m.lock = IF f.lock = e.lock THEN now.lock ELSE f.lock
  BY DEF Merged
<1>8. f = e => m = now
  BY <1>3 DEF Merged, Account
<1> HIDE DEF m
<1>9. /\ m.active = now.active \/ (q.kind = "status" /\ m.active = q.active)
      /\ m.hash = now.hash \/ m.hash.salt = changes + 1
      /\ m.failed = now.failed \/ q.kind = "reset"
      /\ m.lock = now.lock \/ (q.kind = "reset" /\ m.lock = "none")
  BY <1>5, <1>7, Zenon
<1> QED
  BY <1>1, <1>2, <1>3, <1>4, <1>6, <1>8, <1>9 DEF f, m

\* The commit of a change.
LEMMA CommitAccountInv ==
  ASSUME IInv, NEW h \in Handler, CommitAccount(h)
  PROVE  IInv'
<1> DEFINE q == job[h]
           u == Subject(q)
           now == accounts[u]
           m == Merged(seen[h], Changed(seen[h], q), now)
<1>1. /\ pc[h] = "commit" /\ q \in UserRequest(Token) /\ q.kind \in {"change", "reset", "status"}
      /\ u \in Login /\ Exists(u) /\ now \in Account /\ m \in Account
      /\ accounts' = [accounts EXCEPT ![u] = m]
      /\ m = now \/ holder[u] = NoHandler
      /\ m.admin = now.admin /\ m.place = now.place
      /\ m.hash = now.hash \/ m.hash.salt = changes + 1
      /\ m.failed = now.failed \/ q.kind = "reset"
      /\ m.lock = now.lock \/ (q.kind = "reset" /\ m.lock = "none")
      /\ changes' = changes + 1 /\ Finish(h) /\ UNCHANGED tokens
      /\ wrong' = IF q.kind = "reset" THEN [wrong EXCEPT ![u] = 0] ELSE wrong
  BY CommitEffect
<1> HIDE DEF m, u
<1>2. changes \in Nat /\ MaxAttempts \in Nat \ {0} /\ wrong \in [Login -> Nat]
  BY AccessAssumption DEF IInv, TypeOK
<1>3. \A v \in Login : accounts'[v] = IF v = u THEN m ELSE accounts[v]
  BY <1>1 DEF IInv, TypeOK
<1>4. Grows
  <2>1. m # NoAccount /\ m.admin = accounts[u].admin /\ m.place = accounts[u].place
    BY <1>1, AccessAssumption
  <2> SUFFICES ASSUME NEW v \in Login, accounts[v] # NoAccount
               PROVE  /\ accounts'[v] # NoAccount
                      /\ accounts'[v].admin = accounts[v].admin
                      /\ accounts'[v].place = accounts[v].place
    BY DEF Grows, Exists
  <2> QED
    BY <1>3, <2>1
<1>5. \A g \in Handler : HandlerInv(g)'
  BY <1>1, <1>2, <1>3, <1>4, FinishInv
<1>6. TypeOK'
  <2>1. accounts' \in [Login -> Account \cup {NoAccount}]
    BY <1>1 DEF IInv, TypeOK
  <2>2. wrong' \in [Login -> Nat]
    BY <1>1, <1>2
  <2> QED
    BY <1>1, <1>2, <2>1, <2>2, FinishType DEF IInv, TypeOK
<1>7. SaltInv'
  <2>1. ASSUME NEW v \in Login, accounts'[v] # NoAccount
        PROVE  accounts'[v].hash.salt <= changes + 1
    <3>1. now.hash.salt \in Nat /\ now.hash.salt <= changes
      BY <1>1 DEF IInv, SaltInv, Account, Hash
    <3>2. accounts[v] # NoAccount => accounts[v].hash.salt \in Nat /\ accounts[v].hash.salt <= changes
      BY RowIsAccount DEF IInv, SaltInv, Account, Hash, Exists
    <3>3. CASE v = u
      BY <1>1, <1>2, <1>3, <3>1, <3>3
    <3>4. CASE v # u
      BY <1>2, <1>3, <2>1, <3>2, <3>4
    <3> QED
      BY <3>3, <3>4
  <2>2. ASSUME NEW t \in tokens
        PROVE  accounts'[t.login] # NoAccount /\ t.hash.salt <= changes + 1
    <3>1. t \in Token
      BY DEF IInv, TypeOK
    <3>2. t.login \in Login /\ t.hash.salt \in Nat
      BY <3>1 DEF Token, Hash
    <3> QED
      BY <1>2, <1>4, <3>2 DEF IInv, SaltInv, Grows
  <2> QED
    BY <1>1, <2>1, <2>2 DEF SaltInv, Exists
<1>8. CountInv'
  <2> SUFFICES ASSUME NEW v \in Login
               PROVE  /\ wrong'[v] < MaxAttempts
                      /\ accounts'[v] # NoAccount /\ accounts'[v].lock = "none" =>
                           wrong'[v] <= accounts'[v].failed
                      /\ accounts'[v] = NoAccount \/ accounts'[v].lock # "none" => wrong'[v] = 0
    BY DEF CountInv, Exists
  <2>1. /\ wrong[v] < MaxAttempts
        /\ accounts[v] # NoAccount /\ accounts[v].lock = "none" => wrong[v] <= accounts[v].failed
        /\ accounts[v] = NoAccount \/ accounts[v].lock # "none" => wrong[v] = 0
    BY DEF IInv, CountInv, Exists
  <2>2. CASE v # u
    BY <1>1, <1>2, <1>3, <2>1, <2>2
  <2>3. CASE v = u /\ q.kind # "reset"
    BY <1>1, <1>3, <2>1, <2>3, AccessAssumption DEF Exists
  <2>4. CASE v = u /\ q.kind = "reset"
    <3>1. wrong'[v] = 0 /\ m.failed \in Nat /\ m # NoAccount
      BY <1>1, <1>2, <2>4, AccessAssumption DEF Account
    <3> QED
      BY <1>2, <1>3, <2>4, <3>1
  <2> QED
    BY <2>2, <2>3, <2>4
<1> QED
  BY <1>5, <1>6, <1>7, <1>8 DEF IInv

\* An account that is inserted where there is none.
LEMMA InsertRows ==
  ASSUME IInv, NEW u \in Login, ~Exists(u), NEW p \in Place \cup {NoPlace},
         accounts' = [accounts EXCEPT ![u] = NewAccount(p)], changes' = changes + 1,
         UNCHANGED <<tokens, wrong>>
  PROVE  /\ accounts' \in [Login -> Account \cup {NoAccount}]
         /\ changes' \in Nat /\ changes <= changes'
         /\ Grows
         /\ \A v \in Login : holder[v] # NoHandler => accounts'[v] = accounts[v]
         /\ SaltInv' /\ CountInv'
<1>1. changes \in Nat /\ 0 \in 0..MaxAttempts
  BY AccessAssumption DEF IInv, TypeOK
<1>2. Hashed(FirstPassword) \in Hash /\ Hashed(FirstPassword).salt = changes + 1
  BY <1>1, AccessAssumption, HashedIsNew
<1>3. /\ NewAccount(p) \in Account
      /\ NewAccount(p).hash.salt = changes + 1
      /\ NewAccount(p).lock = "none" /\ NewAccount(p).failed = 0
  BY <1>1, <1>2 DEF NewAccount, Account
<1>4. \A v \in Login : accounts'[v] = IF v = u THEN NewAccount(p) ELSE accounts[v]
  BY DEF IInv, TypeOK
<1>5. accounts' \in [Login -> Account \cup {NoAccount}]
  BY <1>3 DEF IInv, TypeOK
<1>6. Grows
  BY <1>4 DEF Grows, Exists
<1>7. ASSUME NEW v \in Login, holder[v] # NoHandler
      PROVE  accounts'[v] = accounts[v]
  <2>1. holder[v] \in Handler /\ job[holder[v]].login = v /\ pc[holder[v]] = "verify"
    BY <1>7 DEF IInv, TypeOK
  <2>2. accounts[v] = seen[holder[v]] /\ seen[holder[v]] # NoAccount
    BY <2>1 DEF IInv, TypeOK, HandlerInv, VerifyInv
  <2> QED
    BY <1>4, <2>2 DEF Exists
<1>8. SaltInv'
  <2>1. ASSUME NEW v \in Login, accounts'[v] # NoAccount
        PROVE  accounts'[v].hash.salt <= changes + 1
    <3>1. accounts[v] # NoAccount => accounts[v].hash.salt \in Nat /\ accounts[v].hash.salt <= changes
      BY RowIsAccount DEF IInv, SaltInv, Account, Hash, Exists
    <3>2. CASE v = u
      BY <1>1, <1>3, <1>4, <3>2
    <3>3. CASE v # u
      BY <1>1, <1>4, <2>1, <3>1, <3>3
    <3> QED
      BY <3>2, <3>3
  <2>2. ASSUME NEW t \in tokens
        PROVE  accounts'[t.login] # NoAccount /\ t.hash.salt <= changes + 1
    <3>1. t \in Token
      BY DEF IInv, TypeOK
    <3>2. t.login \in Login /\ t.hash.salt \in Nat
      BY <3>1 DEF Token, Hash
    <3> QED
      BY <1>1, <1>6, <3>2 DEF IInv, SaltInv, Grows
  <2> QED
    BY <2>1, <2>2 DEF SaltInv, Exists
<1>9. CountInv'
  <2>1. wrong[u] = 0
    BY DEF IInv, CountInv
  <2> QED
    BY <1>3, <1>4, <2>1, AccessAssumption DEF IInv, CountInv, Exists
<1> QED
  BY <1>1, <1>5, <1>6, <1>7, <1>8, <1>9
\* The INSERT of an account.
LEMMA CreateUserInv ==
  ASSUME IInv, NEW h \in Handler, CreateUser(h)
  PROVE  IInv'
<1> DEFINE q == job[h]
<1>1. q \in UserRequest(Token) /\ q.kind = "create" /\ Finish(h) /\ UNCHANGED <<tokens, wrong>>
  BY DEF CreateUser, IInv, HandlerInv, RequestInv
<1>2. q.login \in Login /\ q.place \in Place \cup {NoPlace}
  BY <1>1, RequestFields
<1>3. CASE UNCHANGED <<accounts, changes>>
  BY <1>1, <1>3, EndInv
<1>4. CASE /\ ~Exists(q.login)
           /\ accounts' = [accounts EXCEPT ![q.login] = NewAccount(q.place)]
           /\ changes' = changes + 1
  <2>1. /\ accounts' \in [Login -> Account \cup {NoAccount}]
        /\ changes' \in Nat /\ changes <= changes'
        /\ Grows
        /\ \A v \in Login : holder[v] # NoHandler => accounts'[v] = accounts[v]
        /\ SaltInv' /\ CountInv'
    BY <1>1, <1>2, <1>4, InsertRows
  <2>2. \A g \in Handler : HandlerInv(g)'
    BY <1>1, <2>1, FinishInv
  <2>3. TypeOK'
    BY <1>1, <2>1, FinishType DEF IInv, TypeOK
  <2> QED
    BY <2>1, <2>2, <2>3 DEF IInv
<1> QED
  BY <1>3, <1>4 DEF CreateUser

\* The first administrator is created when the server starts.
LEMMA BootstrapInv ==
  ASSUME IInv, Bootstrap
  PROVE  IInv'
<1>1. /\ ~Exists(Root) /\ accounts' = [accounts EXCEPT ![Root] = NewAccount(NoPlace)]
      /\ changes' = changes + 1
      /\ UNCHANGED <<tokens, holder, pc, job, seen, known, wrong>>
  BY DEF Bootstrap, requests
<1>2. /\ accounts' \in [Login -> Account \cup {NoAccount}]
      /\ changes' \in Nat /\ changes <= changes'
      /\ Grows
      /\ \A v \in Login : holder[v] # NoHandler => accounts'[v] = accounts[v]
      /\ SaltInv' /\ CountInv'
  BY <1>1, AccessAssumption, InsertRows
<1>3. ASSUME NEW g \in Handler PROVE HandlerInv(g)'
  BY <1>1, <1>2, OthersInv, AccessAssumption
<1>4. TypeOK'
  BY <1>1, <1>2 DEF IInv, TypeOK
<1> QED
  BY <1>2, <1>3, <1>4 DEF IInv

\* A lock runs out; no login holds a locked account.
LEMMA ExpireInv ==
  ASSUME IInv, NEW u \in Login, Expire(u)
  PROVE  IInv'
<1> DEFINE e == accounts[u]
           m == [e EXCEPT !.lock = "past"]
<1>1. /\ e.lock = "future" /\ Exists(u) /\ accounts' = [accounts EXCEPT ![u] = m]
      /\ UNCHANGED <<changes, tokens, holder, pc, job, seen, known, wrong>>
  BY DEF Expire, requests
<1>2. e \in Account
  BY <1>1, RowIsAccount DEF IInv
<1>3. m \in Account /\ m.admin = e.admin /\ m.place = e.place /\ m.hash = e.hash /\ m.lock = "past"
  BY <1>2 DEF Account
<1> HIDE DEF m
<1>4. \A v \in Login : accounts'[v] = IF v = u THEN m ELSE accounts[v]
  BY <1>1 DEF IInv, TypeOK
<1>5. m # NoAccount /\ wrong[u] = 0 /\ wrong[u] < MaxAttempts
  BY <1>1, <1>3, AccessAssumption DEF IInv, CountInv
<1>6. Grows
  <2> SUFFICES ASSUME NEW v \in Login, accounts[v] # NoAccount
               PROVE  /\ accounts'[v] # NoAccount
                      /\ accounts'[v].admin = accounts[v].admin
                      /\ accounts'[v].place = accounts[v].place
    BY DEF Grows, Exists
  <2> QED
    BY <1>3, <1>4, <1>5
<1>7. ASSUME NEW g \in Handler PROVE HandlerInv(g)'
  <2>1. ASSUME NEW v \in Login, holder[v] = g
        PROVE  accounts'[v] = accounts[v]
    <3>1. accounts[v].lock # "future"
      BY <2>1 DEF IInv, TypeOK, HandlerInv, VerifyInv
    <3> QED
      BY <1>1, <1>4, <3>1
  <2> QED
    BY <1>1, <1>6, <2>1, OthersInv DEF IInv, TypeOK
<1>8. TypeOK'
  BY <1>1, <1>3 DEF IInv, TypeOK
<1>9. SaltInv'
  <2>1. \A v \in Login : accounts'[v] # NoAccount =>
                            accounts[v] # NoAccount /\ accounts'[v].hash = accounts[v].hash
    BY <1>1, <1>3, <1>4 DEF Exists
  <2>2. \A t \in tokens : t.login \in Login
    BY DEF IInv, TypeOK, Token
  <2> QED
    BY <1>1, <1>6, <2>1, <2>2 DEF IInv, SaltInv, Grows, Exists
<1>10. CountInv'
  BY <1>1, <1>3, <1>4, <1>5 DEF IInv, CountInv, Exists
<1> QED
  BY <1>7, <1>8, <1>9, <1>10 DEF IInv

\* Every step preserves the invariant.
LEMMA NextInv == IInv /\ [Next]_vars => IInv'
<1> SUFFICES ASSUME IInv, [Next]_vars PROVE IInv'
  OBVIOUS
<1>1. ASSUME NEW h \in Handler, Begin(h) PROVE IInv'
  BY <1>1, ReadAccountInv, AdmitInv DEF Begin
<1>2. ASSUME NEW h \in Handler, Work(h) PROVE IInv'
  BY <1>2, VerifyPasswordInv, ReadTargetInv, CheckNewUserInv, CommitAccountInv, CreateUserInv DEF Work
<1>3. ASSUME NEW h \in Handler, Lose(h) PROVE IInv'
  BY <1>3, EndInv DEF Lose
<1>4. ASSUME NEW u \in Login, Expire(u) PROVE IInv'
  BY <1>4, ExpireInv
<1>5. CASE Bootstrap
  BY <1>5, BootstrapInv
<1>6. CASE UNCHANGED vars
  <2>1. UNCHANGED <<accounts, changes, tokens, holder, pc, job, seen, known, wrong>>
    BY <1>6 DEF vars, requests
  <2>2. TypeOK'
    BY <2>1 DEF IInv, TypeOK
  <2>3. \A h \in Handler : HandlerInv(h)'
    BY <2>1 DEF IInv, HandlerInv, VerifyInv, RequestInv, CommitInv, SeenInv, Keepers, Exists, Subject
  <2> QED
    BY <2>1, <2>2, <2>3, RowsKept DEF IInv
<1> QED
  BY <1>1, <1>2, <1>3, <1>4, <1>5, <1>6 DEF Next

\* The invariant holds throughout.
LEMMA Invariant == Spec => []IInv
<1>1. Init => IInv
  BY InitInv
<1>2. IInv /\ [Next]_vars => IInv'
  BY NextInv
<1> QED
  BY <1>1, <1>2, PTL DEF Spec

\* The variables keep their types, and a row is held by the login that verifies its password.
THEOREM AccessTypeCorrect == Spec => []TypeOK
<1>1. IInv => TypeOK
  BY DEF IInv
<1> QED
  BY <1>1, Invariant, PTL

\* However many logins run at once, an account is locked before more wrong passwords than
\* the limit are tried; resets and merged writes included (_authenticate of api.py).
THEOREM GuessesAreLimited == Spec => []AttemptsLimited
<1>1. IInv => AttemptsLimited
  BY DEF IInv, CountInv, AttemptsLimited
<1> QED
  BY <1>1, Invariant, PTL
-----------------------------------------------------------------------------
(***************************************************************************)
(* What a step may never do.                                               *)
(***************************************************************************)

\* What a step does to a row that is there: a new hash is newer than all others, and only
\* a status request changes whether the account is active.
RowStep ==
  \A v \in Login :
    Exists(v) =>
      /\ accounts'[v] # NoAccount
      /\ accounts'[v].admin = accounts[v].admin
      /\ accounts'[v].hash = accounts[v].hash \/ accounts'[v].hash.salt = changes + 1
      /\ \/ accounts'[v].active = accounts[v].active
         \/ \E h \in Handler :
              /\ CommitAccount(h)
              /\ job[h].kind = "status" /\ job[h].login = v
              /\ accounts'[v].active = job[h].active

\* Every step is such a step.
LEMMA StepsAreRowSteps ==
  ASSUME IInv, [Next]_vars
  PROVE  RowStep
<1>1. CASE UNCHANGED accounts
  BY <1>1 DEF RowStep, Exists
<1>2. ASSUME NEW h \in Handler, VerifyPassword(h) PROVE RowStep
  <2> DEFINE u == job[h].login
             e == accounts[u]
  <2>1. u \in Login /\ e \in Account /\ Exists(u)
    BY <1>2, VerifyEffect
  <2>2. PICK n \in {0, Attempts(e) + 1} : accounts' = [accounts EXCEPT ![u] = Counted(e, n)]
    BY <1>2, VerifyEffect
  <2>3. n \in Nat
    BY <2>1 DEF Attempts, Account
  <2>4. /\ Counted(e, n) \in Account
        /\ Counted(e, n).admin = e.admin /\ Counted(e, n).active = e.active
        /\ Counted(e, n).hash = e.hash
    BY <2>1, <2>3, CountedAccount
  <2>5. \A v \in Login : accounts'[v] = IF v = u THEN Counted(e, n) ELSE accounts[v]
    BY <2>2 DEF IInv, TypeOK
  <2>6. Counted(e, n) # NoAccount
    BY <2>4, AccessAssumption
  <2> SUFFICES ASSUME NEW v \in Login, accounts[v] # NoAccount
               PROVE  /\ accounts'[v] # NoAccount
                      /\ accounts'[v].admin = accounts[v].admin
                      /\ accounts'[v].hash = accounts[v].hash
                      /\ accounts'[v].active = accounts[v].active
    BY DEF RowStep, Exists
  <2> QED
    BY <2>4, <2>5, <2>6
<1>3. ASSUME NEW h \in Handler, CommitAccount(h) PROVE RowStep
  <2> DEFINE q == job[h]
             u == Subject(q)
             now == accounts[u]
             m == Merged(seen[h], Changed(seen[h], q), now)
  <2>1. /\ q.kind \in {"change", "reset", "status"}
        /\ u \in Login /\ Exists(u) /\ m \in Account
        /\ accounts' = [accounts EXCEPT ![u] = m]
        /\ m.admin = now.admin
        /\ m.active = now.active \/ (q.kind = "status" /\ m.active = q.active)
        /\ m.hash = now.hash \/ m.hash.salt = changes + 1
    BY <1>3, CommitEffect
  <2>2. q.kind = "status" => u = q.login
    BY DEF Subject
  <2> HIDE DEF m, u
  <2>3. \A v \in Login : accounts'[v] = IF v = u THEN m ELSE accounts[v]
    BY <2>1 DEF IInv, TypeOK
  <2>4. m # NoAccount
    BY <2>1, AccessAssumption
  <2> SUFFICES ASSUME NEW v \in Login, accounts[v] # NoAccount
               PROVE  /\ accounts'[v] # NoAccount
                      /\ accounts'[v].admin = accounts[v].admin
                      /\ accounts'[v].hash = accounts[v].hash \/ accounts'[v].hash.salt = changes + 1
                      /\ \/ accounts'[v].active = accounts[v].active
                         \/ /\ job[h].kind = "status" /\ job[h].login = v
                            /\ accounts'[v].active = job[h].active
    BY <1>3 DEF RowStep, Exists
  <2>5. CASE v = u
    BY <2>1, <2>2, <2>3, <2>4, <2>5
  <2>6. CASE v # u
    BY <2>3, <2>6
  <2> QED
    BY <2>5, <2>6
<1>4. ASSUME NEW u \in Login, ~Exists(u), NEW p, accounts' = [accounts EXCEPT ![u] = NewAccount(p)]
      PROVE  RowStep
  <2>1. \A v \in Login : Exists(v) => accounts'[v] = accounts[v]
    BY <1>4 DEF IInv, TypeOK
  <2> QED
    BY <2>1 DEF RowStep, Exists
<1>5. ASSUME NEW h \in Handler, CreateUser(h) PROVE RowStep
  <2>1. job[h] \in UserRequest(Token) /\ job[h].kind = "create"
    BY <1>5 DEF CreateUser, IInv, HandlerInv, RequestInv
  <2>2. job[h].login \in Login
    BY <2>1, RequestFields
  <2> QED
    BY <1>1, <1>4, <1>5, <2>2 DEF CreateUser
<1>6. ASSUME NEW u \in Login, Expire(u) PROVE RowStep
  <2>1. accounts[u] \in Account /\ accounts' = [accounts EXCEPT ![u].lock = "past"]
    BY <1>6, RowIsAccount DEF Expire, IInv
  <2> DEFINE m == [accounts[u] EXCEPT !.lock = "past"]
  <2>2. /\ m \in Account /\ m.admin = accounts[u].admin
        /\ m.hash = accounts[u].hash /\ m.active = accounts[u].active
    BY <2>1 DEF Account
  <2> HIDE DEF m
  <2>3. \A v \in Login : accounts'[v] = IF v = u THEN m ELSE accounts[v]
    BY <2>1 DEF IInv, TypeOK, m
  <2>4. m # NoAccount
    BY <2>2, AccessAssumption
  <2> SUFFICES ASSUME NEW v \in Login, accounts[v] # NoAccount
               PROVE  /\ accounts'[v] # NoAccount
                      /\ accounts'[v].admin = accounts[v].admin
                      /\ accounts'[v].hash = accounts[v].hash
                      /\ accounts'[v].active = accounts[v].active
    BY DEF RowStep, Exists
  <2> QED
    BY <2>2, <2>3, <2>4
<1>7. CASE Bootstrap
  BY <1>4, <1>7, AccessAssumption DEF Bootstrap
<1>8. ASSUME NEW h \in Handler, Begin(h) \/ ReadTarget(h) \/ CheckNewUser(h) \/ Lose(h)
      PROVE  UNCHANGED accounts
  BY <1>8 DEF Begin, ReadAccount, Admit, ReadTarget, CheckNewUser, Lose
<1>9. CASE UNCHANGED vars
  BY <1>1, <1>9 DEF vars
<1> QED
  BY <1>1, <1>2, <1>3, <1>5, <1>6, <1>7, <1>8, <1>9 DEF Next, Work

\* No step makes an old token good.
LEMMA TokenStep ==
  ASSUME IInv, [Next]_vars, NEW t \in tokens, accounts[t.login].hash # t.hash
  PROVE  accounts'[t.login].hash # t.hash
<1>1. t \in Token /\ changes \in Nat
  BY DEF IInv, TypeOK
<1>2. t.login \in Login /\ t.hash.salt \in Nat
  BY <1>1 DEF Token, Hash
<1>3. Exists(t.login) /\ t.hash.salt <= changes
  BY DEF IInv, SaltInv
<1>4. \/ accounts'[t.login].hash = accounts[t.login].hash
      \/ accounts'[t.login].hash.salt = changes + 1
  BY <1>2, <1>3, StepsAreRowSteps DEF RowStep
<1> QED
  BY <1>1, <1>2, <1>3, <1>4

\* A token whose password was changed or reset is never good again, not even when the same
\* password returns (_password_fingerprint of auth.py).
THEOREM OldTokensAreDead == Spec => OldTokensStayDead
<1>1. IInv /\ [Next]_vars =>
        [\A t \in tokens : accounts[t.login].hash # t.hash => accounts'[t.login].hash # t.hash]_vars
  BY TokenStep
<1> QED
  BY <1>1, Invariant, PTL DEF Spec, OldTokensStayDead

\* The last administrator falls only to the status request of another who was disabled meanwhile.
LEMMA LastAdminStep ==
  ASSUME IInv, [Next]_vars, Administrators # {}, Administrators' = {}
  PROVE  \E h \in Handler :
           /\ CommitAccount(h)
           /\ job[h].kind = "status"
           /\ ~accounts[job[h].token.login].active
<1>1. PICK a \in Login : Exists(a) /\ accounts[a].admin /\ accounts[a].active
  BY DEF Administrators
<1>2. accounts[a] \in Account /\ accounts'[a] # NoAccount /\ accounts'[a].admin
  BY <1>1, RowIsAccount, StepsAreRowSteps DEF RowStep, IInv
<1>3. ~accounts'[a].active
  BY <1>1, <1>2 DEF Administrators, Exists
<1>4. PICK h \in Handler :
        /\ CommitAccount(h)
        /\ job[h].kind = "status" /\ job[h].login = a
        /\ accounts'[a].active = job[h].active
  BY <1>1, <1>3, StepsAreRowSteps DEF RowStep
<1> DEFINE b == job[h].token.login
<1>5. /\ pc[h] = "commit" /\ job[h] \in UserRequest(Token)
      /\ Exists(b) /\ accounts[b].admin
      /\ job[h].login = b => job[h].active
  BY <1>4 DEF CommitAccount, IInv, HandlerInv, RequestInv, CommitInv
<1>6. b \in Login /\ b # a
  BY <1>3, <1>4, <1>5, RequestFields
<1>7. /\ accounts[b].active = accounts'[b].active
      /\ accounts'[b] # NoAccount /\ accounts'[b].admin = accounts[b].admin
  <2>1. accounts' = [accounts EXCEPT ![a] = Merged(seen[h], Changed(seen[h], job[h]), accounts[a])]
    BY <1>4 DEF CommitAccount, Update
  <2> QED
    BY <1>5, <1>6, <2>1 DEF IInv, TypeOK, Exists
<1>8. ~accounts'[b].active
  BY <1>5, <1>6, <1>7 DEF Administrators, Exists
<1> QED
  BY <1>4, <1>7, <1>8

\* While nobody who was disabled has a request in progress, some active administrator
\* stays (set_user_status of admin_users.py).
THEOREM LastAdminIsKept == Spec => LastAdminFallsToRace
<1>1. IInv /\ [Next]_vars =>
        [Administrators # {} /\ Administrators' = {} =>
           \E h \in Handler :
             /\ CommitAccount(h)
             /\ job[h].kind = "status"
             /\ ~accounts[job[h].token.login].active]_vars
  BY LastAdminStep
<1> QED
  BY <1>1, Invariant, PTL DEF Spec, LastAdminFallsToRace

\* Nobody whom create_user saw as the keeper of a place gets a second one beside him
\* (admin_users.py).
THEOREM PlacesAreSharedByRaceOnly == Spec => SharedOnlyByRace
<1>1. IInv /\ [Next]_vars =>
        [\A h \in Handler :
           CreateUser(h) /\ accounts' # accounts /\ job[h].place # NoPlace =>
             Keepers(job[h].place) \cap known[h] = {}]_vars
  BY DEF IInv, HandlerInv, RequestInv, CommitInv, CreateUser
<1> QED
  BY <1>1, Invariant, PTL DEF Spec, SharedOnlyByRace
=============================================================================
