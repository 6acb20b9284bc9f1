--------------------------- MODULE MobileQueue_proofs ---------------------------
(***************************************************************************)
(* Proofs about MobileQueue for any users, operations, logins, requests    *)
(* without an answer and events from outside.                              *)
(***************************************************************************)
EXTENDS MobileQueue, FiniteSetTheorems, WellFoundedInduction, TLAPS

-----------------------------------------------------------------------------
(***************************************************************************)
(* Sequences: the rows selected from the queue, in their order.            *)
(***************************************************************************)

\* A nonempty set of numbers has a least one.
LEMMA NatHasLeast ==
  ASSUME NEW S \in SUBSET Nat, S # {}
  PROVE  \E x \in S : \A y \in S : x <= y
<1>1. PICK x \in S : \A y \in S : ~(<<y, x>> \in OpToRel(<, Nat))
  BY WFMin, NatLessThanWellFounded, Zenon
<1>2. \A y \in S : ~(y < x)
  BY <1>1 DEF OpToRel
<1> QED
  BY <1>2

\* The equation of Select at i, and the functions that satisfy it up to n.
NextPart(q, S, f, i) ==
  IF i = 0 THEN <<>>
  ELSE IF q[i] \in S THEN Append(f[i - 1], q[i]) ELSE f[i - 1]
Selects(q, S, n, f) == f = [i \in 0..n |-> NextPart(q, S, f, i)]

\* There is such a function for every n: to the one for n - 1 the next value is added.
LEMMA SelectsExists ==
  ASSUME NEW q, NEW S, NEW m \in Nat
  PROVE  \E f : Selects(q, S, m, f)
<1> DEFINE None == {n \in Nat : ~ \E f : Selects(q, S, n, f)}
<1> SUFFICES ASSUME None # {}
             PROVE  FALSE
  OBVIOUS
<1>1. PICK n \in None : \A k \in None : n <= k
  BY NatHasLeast
<1>2. CASE n = 0
  <2> DEFINE f == [i \in 0..0 |-> <<>>]
  <2>1. Selects(q, S, 0, f)
    BY DEF Selects, NextPart
  <2> QED
    BY <1>2, <2>1
<1>3. CASE n # 0
  <2>1. n - 1 \in Nat /\ n - 1 \notin None
    BY <1>1, <1>3
  <2>2. PICK g : Selects(q, S, n - 1, g)
    BY <2>1
  <2> DEFINE f == [i \in 0..n |-> IF i = n THEN NextPart(q, S, g, n) ELSE g[i]]
  <2>3. ASSUME NEW i \in 0..n
        PROVE  f[i] = NextPart(q, S, f, i)
    <3>1. i # 0 => f[i - 1] = g[i - 1]
      BY <2>1, <2>3
    <3>2. NextPart(q, S, f, i) = NextPart(q, S, g, i)
      <4> HIDE DEF f
      <4> QED
        BY <3>1 DEF NextPart
    <3>3. i # n => g[i] = NextPart(q, S, g, i)
      <4>1. ASSUME i # n
            PROVE  i \in 0..(n - 1)
        BY <4>1, <2>3, <2>1
      <4> QED
        BY <4>1, <2>2, Zenon DEF Selects
    <3> QED
      BY <3>2, <3>3
  <2>4. Selects(q, S, n, f)
    <3> HIDE DEF f
    <3>1. f = [i \in 0..n |-> f[i]]
      BY DEF f
    <3>2. [i \in 0..n |-> f[i]] = [i \in 0..n |-> NextPart(q, S, f, i)]
      BY <2>3, Zenon
    <3> QED
      BY <3>1, <3>2, Zenon DEF Selects
  <2> QED
    BY <2>4, Zenon
<1> QED
  BY <1>2, <1>3

\* A sequence names no operation twice.
Once(q) == \A i, j \in 1..Len(q) : q[i].op = q[j].op => i = j

\* What is selected of the first n: a sequence of the elements in S that are among them,
\* which names no operation twice if q does not.
Part(q, S, f, n) ==
  /\ f[n] \in Seq(Row)
  /\ \A r : (\E i \in 1..Len(f[n]) : f[n][i] = r) <=> (\E i \in 1..n : q[i] = r /\ r \in S)
  /\ Once(q) => Once(f[n])

\* Adding an element to a sequence.
LEMMA Appended ==
  ASSUME NEW s \in Seq(Row), NEW e \in Row
  PROVE  /\ Append(s, e) \in Seq(Row)
         /\ Len(Append(s, e)) = Len(s) + 1
         /\ \A i \in 1..Len(s) : Append(s, e)[i] = s[i]
         /\ Append(s, e)[Len(s) + 1] = e
         /\ Len(s) \in Nat
OBVIOUS

\* The next part.
LEMMA PartStep ==
  ASSUME NEW q \in Seq(Row), NEW S, NEW f, NEW n \in 1..Len(q),
         Part(q, S, f, n - 1), f[n] = NextPart(q, S, f, n)
  PROVE  Part(q, S, f, n)
<1> DEFINE s == f[n - 1]
           e == q[n]
<1>1. n \in Nat /\ n # 0 /\ e \in Row /\ n - 1 \in Nat /\ Len(q) \in Nat
  OBVIOUS
<1>2. /\ s \in Seq(Row)
      /\ \A r : (\E i \in 1..Len(s) : s[i] = r) <=> (\E i \in 1..(n - 1) : q[i] = r /\ r \in S)
      /\ Once(q) => Once(s)
  BY DEF Part
<1>3. \A i \in 1..n : i \in 1..(n - 1) \/ i = n
  BY <1>1
<1>4. 1..(n - 1) \subseteq 1..n /\ n \in 1..n
  BY <1>1
<1>5. CASE e \notin S
  <2>1. f[n] = s
    BY <1>1, <1>5 DEF NextPart
  <2> QED
    BY <1>2, <1>3, <1>4, <1>5, <2>1, Zenon DEF Part
<1>6. CASE e \in S
  <2> DEFINE t == Append(s, e)
  <2>1. f[n] = t
    BY <1>1, <1>6 DEF NextPart
  <2>2. /\ t \in Seq(Row) /\ Len(t) = Len(s) + 1 /\ Len(s) \in Nat
        /\ \A i \in 1..Len(s) : t[i] = s[i]
        /\ t[Len(s) + 1] = e
    BY <1>1, <1>2, Appended
  <2> HIDE DEF s, t
  <2>3. ASSUME NEW r
        PROVE  (\E i \in 1..Len(t) : t[i] = r) <=> (\E i \in 1..Len(s) : s[i] = r) \/ r = e
    BY <2>2
  <2>4. ASSUME NEW r
        PROVE  (\E i \in 1..n : q[i] = r /\ r \in S) <=>
                 (\E i \in 1..(n - 1) : q[i] = r /\ r \in S) \/ r = e
    BY <1>3, <1>4, <1>6
  <2>5. ASSUME Once(q)
        PROVE  Once(t)
    <3>1. Once(s)
      BY <1>2, <2>5
    <3>2. ASSUME NEW i \in 1..Len(s), s[i].op = e.op
          PROVE  FALSE
      <4>1. PICK j \in 1..(n - 1) : q[j] = s[i]
        BY <1>2
      <4> QED
        BY <1>1, <1>4, <2>5, <3>2, <4>1 DEF Once
    <3>3. ASSUME NEW i \in 1..Len(t), NEW j \in 1..Len(t), t[i].op = t[j].op
          PROVE  i = j
      <4>1. /\ i \in 1..Len(s) \/ i = Len(s) + 1
            /\ j \in 1..Len(s) \/ j = Len(s) + 1
        BY <2>2
      <4>2. CASE i \in 1..Len(s) /\ j \in 1..Len(s)
        BY <2>2, <3>1, <3>3, <4>2 DEF Once
      <4> QED
        BY <2>2, <3>2, <3>3, <4>1, <4>2
    <3> QED
      BY <3>3, Zenon DEF Once
  <2> QED
    BY <1>2, <2>1, <2>2, <2>3, <2>4, <2>5, Zenon DEF Part
<1> QED
  BY <1>5, <1>6

\* Select returns the rows of the queue that are in S.
LEMMA SelectRows ==
  ASSUME queue \in Seq(Row), NEW S
  PROVE  /\ Select(S) \in Seq(Row)
         /\ Range(Select(S)) = Rows \cap S
         /\ Once(queue) => Once(Select(S))
<1> DEFINE m == Len(queue)
           f == CHOOSE g : Selects(queue, S, m, g)
<1>1. m \in Nat
  OBVIOUS
<1>2. Select(S) = f[m]
  BY Zenon DEF Select, Selects, NextPart
<1>3. Selects(queue, S, m, f)
  BY <1>1, SelectsExists, Zenon
<1> HIDE DEF f
<1>4. \A n \in 0..m : f[n] = NextPart(queue, S, f, n)
  BY <1>3, Zenon DEF Selects
<1> DEFINE Bad == {n \in 0..m : ~ Part(queue, S, f, n)}
<1>5. Bad = {}
  <2> SUFFICES ASSUME Bad # {}
               PROVE  FALSE
    OBVIOUS
  <2>1. Bad \in SUBSET Nat
    BY <1>1
  <2>2. PICK n \in Bad : \A k \in Bad : n <= k
    BY <2>1, NatHasLeast
  <2>3. CASE n = 0
    <3>1. f[0] = <<>>
      BY <1>1, <1>4 DEF NextPart
    <3>2. Part(queue, S, f, 0)
      BY <3>1 DEF Part, Once
    <3> QED
      BY <2>2, <2>3, <3>2
  <2>4. CASE n # 0
    <3>1. n \in 1..Len(queue) /\ n - 1 \in 0..m /\ ~ n <= n - 1
      BY <1>1, <2>2, <2>4
    <3>2. Part(queue, S, f, n - 1)
      BY <2>2, <3>1
    <3>3. Part(queue, S, f, n)
      BY <1>4, <2>2, <3>1, <3>2, PartStep
    <3> QED
      BY <2>2, <3>3
  <2> QED
    BY <2>3, <2>4
<1>6. Part(queue, S, f, m)
  BY <1>1, <1>5
<1>7. f[m] \in Seq(Row) /\ DOMAIN f[m] = 1..Len(f[m]) /\ DOMAIN queue = 1..m
  BY <1>6 DEF Part
<1>8. Range(f[m]) = Rows \cap S
  BY <1>6, <1>7 DEF Part, Rows, Range
<1> QED
  BY <1>2, <1>6, <1>7, <1>8 DEF Part

\* A sequence that names no operation twice is as long as the set of those it names.
LEMMA OnceCounts ==
  ASSUME NEW q \in Seq(Row)
  PROVE  LET ops == {r.op : r \in Range(q)}
         IN  IsFiniteSet(ops) /\ (Once(q) <=> Cardinality(ops) = Len(q))
<1> DEFINE ops == {r.op : r \in Range(q)}
           n == Len(q)
           f == [i \in 1..n |-> q[i].op]
<1>1. n \in Nat /\ DOMAIN q = 1..n
  OBVIOUS
<1>2. IsFiniteSet(1..n) /\ Cardinality(1..n) = n
  BY <1>1, FS_Interval
<1>3. f \in Surjection(1..n, ops)
  BY <1>1 DEF Surjection, Range
<1>4. IsFiniteSet(ops) /\ (Cardinality(ops) = n <=> f \in Injection(1..n, ops))
  BY <1>2, <1>3, FS_Surjection
<1>5. f \in Injection(1..n, ops) <=> Once(q)
  BY <1>3 DEF Injection, IsInjective, Surjection, Once
<1> QED
  BY <1>4, <1>5

-----------------------------------------------------------------------------
(***************************************************************************)
(* The inductive invariant.                                                *)
(***************************************************************************)

\* The screen works with the user it shows, and saves no session without one.
SessionInv ==
  /\ user # Nobody => activeUser["screen"] = user
  /\ step["screen"] \in {"login", "me"} => user = Nobody
  /\ step["screen"] \in {"send", "end"} => user # Nobody
  /\ user = Nobody /\ step["screen"] \in {"off", "login"} => savedToken = 0

\* What is sent is sent for the user who is signed in, unless he left.
SentInv == \A o \in Operation \ left : sending[o] = "sent" => user = Maker[o]

\* A repository has rows in hand only while it synchronises.
IdleInv ==
  \A w \in Side : step[w] \notin {"send", "end"} => todo[w] = <<>> /\ conflicts[w] = {}

\* What a repository has read of the queue and still works on.
Hand(w) == Range(todo[w]) \cup conflicts[w]

\* An operation is queued once in its life: before, nobody has its row in hand.
OnceInv ==
  \A o \in Operation : sending[o] \in {"new", "sent"} =>
    /\ o \notin Queued \cup shown
    /\ \A w \in Side : o \notin Hand(w)

\* The rows in hand are those of the repository's user.
HandInv ==
  \A w \in Side : \A r \in Rows : r.op \in Hand(w) => r.user = activeUser[w]

\* What is known as a conflict, and still in the queue, was refused.
ConflictInv ==
  (shown \cup conflicts["screen"] \cup conflicts["worker"]) \cap Queued \subseteq marked

\* Whoever is signed in, a row that waits has work that comes to it, or belongs to
\* another than the user of the saved session.
WorkInv ==
  \A r \in Rows : sending[r.op] = "queued" /\ r.op \notin marked \cup missed =>
    \/ savedToken # 0 /\ Owner(savedToken) # r.user
    \/ work = "enqueued"
    \/ work = "running" /\ WorkerUser = r.user

IInv ==
  /\ TypeOK
  /\ SessionInv
  /\ SentInv
  /\ IdleInv
  /\ OnceInv
  /\ HandInv
  /\ ConflictInv
  /\ WorkInv
  /\ LostOnlyByLeaving

\* A finite set can be put in a sequence, and SetToSeq does.
LEMMA SetInSequence ==
  ASSUME NEW S, IsFiniteSet(S)
  PROVE  LET q == SetToSeq(S)
         IN  /\ q \in Seq(S)
             /\ Range(q) = S
             /\ \A i, j \in 1..Len(q) : q[i] = q[j] => i = j
<1> DEFINE n == Cardinality(S)
           q == SetToSeq(S)
<1>1. n \in Nat /\ ExistsBijection(1..n, S)
  BY FS_CardinalityType
<1>2. \E f \in [1..n -> S] : IsInjective(f)
  BY <1>1, Zenon DEF ExistsBijection, Bijection, Injection
<1>3. q \in [1..n -> S] /\ IsInjective(q)
  BY <1>2, Zenon DEF SetToSeq
<1> HIDE DEF q
<1>4. IsFiniteSet(1..n) /\ Cardinality(1..n) = n
  BY <1>1, FS_Interval
<1>5. q \in Surjection(1..n, S)
  BY <1>3, <1>4, FS_Injection DEF Injection
<1>6. q \in Seq(S) /\ Len(q) = n
  BY <1>1, <1>3
<1>7. Range(q) = S
  BY <1>3, <1>5 DEF Surjection, Range
<1> QED
  BY <1>3, <1>6, <1>7 DEF q, IsInjective

\* The rows of an earlier time.
LEMMA EarlyRows ==
  ASSUME queue = SetToSeq({[op |-> o, user |-> First] : o \in Early})
  PROVE  /\ queue \in Seq(Row) /\ Once(queue)
         /\ Rows = {[op |-> o, user |-> First] : o \in Early}
         /\ Queued = Early
<1> DEFINE S == {[op |-> o, user |-> First] : o \in Early}
           f == [o \in Early |-> [op |-> o, user |-> First]]
<1>1. f \in Surjection(Early, S)
  BY DEF Surjection
<1>2. IsFiniteSet(S)
  BY <1>1, QueueAssumption, FS_Surjection
<1>3. /\ queue \in Seq(S) /\ Range(queue) = S
      /\ \A i, j \in 1..Len(queue) : queue[i] = queue[j] => i = j
  BY <1>2, SetInSequence, Zenon
<1>4. S \subseteq Row
  BY QueueAssumption DEF Row
<1>5. \A r, s \in S : r.op = s.op => r = s
  OBVIOUS
<1>6. {r.op : r \in S} = Early
  <2>1. \A o \in Early : [op |-> o, user |-> First] \in S /\ [op |-> o, user |-> First].op = o
    OBVIOUS
  <2>2. \A r \in S : r.op \in Early
    OBVIOUS
  <2> HIDE DEF S
  <2> QED
    BY <2>1, <2>2
<1> HIDE DEF S
<1>7. queue \in Seq(Row)
  BY <1>3, <1>4
<1>8. Once(queue)
  <2> SUFFICES ASSUME NEW i \in 1..Len(queue), NEW j \in 1..Len(queue), queue[i].op = queue[j].op
               PROVE  i = j
    BY Zenon DEF Once
  <2>1. queue[i] \in S /\ queue[j] \in S
    BY <1>3
  <2> QED
    BY <1>3, <1>5, <2>1
<1> QED
  BY <1>3, <1>6, <1>7, <1>8, Zenon DEF Rows, Queued, S

\* The initial state satisfies the invariant.
LEMMA InitInv == Init => IInv
<1> SUFFICES ASSUME Init
             PROVE  IInv
  OBVIOUS
<1>1. /\ queue \in Seq(Row) /\ Once(queue)
      /\ Rows = {[op |-> o, user |-> First] : o \in Early}
      /\ Queued = Early
  BY EarlyRows DEF Init
<1>2. Cardinality(Queued) = Len(queue)
  BY <1>1, OnceCounts DEF Queued, Rows
<1>3. \A w \in Side : Hand(w) = {}
  BY DEF Init, Hand, Range
<1>4. /\ Len(logins) = 1 /\ logins[1] = First /\ logins \in Seq(User)
      /\ First \in User /\ First # Nobody /\ 1 <= MaxLogins /\ MaxLogins \in Nat
      /\ MaxFailures \in Nat /\ MaxOutside \in Nat
  BY QueueAssumption DEF Init
<1>5. TypeOK
  <2>1. /\ posted \in [Operation -> User \cup {Nobody}]
        /\ logins \in Seq(User) /\ Len(logins) <= MaxLogins
        /\ revoked \in [User -> 0..Len(logins)]
        /\ savedToken \in 0..Len(logins) /\ savedUser \in User \cup {Nobody}
    BY <1>4 DEF Init
  <2>2. /\ todo \in [Side -> Seq(Operation)] /\ conflicts \in [Side -> SUBSET Operation]
        /\ step \in [Side -> {"off", "login", "me", "rows", "send", "end"}]
        /\ token \in [Side -> 0..Len(logins)]
        /\ activeUser \in [Side -> User \cup {Nobody}]
        /\ \A w \in Side : step[w] = "off"
    BY <1>4 DEF Init, Side
  <2>3. /\ user \in User \cup {Nobody} /\ loading \in BOOLEAN /\ shown \subseteq Operation
        /\ sending \in [Operation -> {"new", "sent", "stored", "queued", "answered", "lost"}]
        /\ sentWith \in [Operation -> Token]
        /\ work \in {"none", "enqueued", "running", "finishing"}
        /\ failures \in 0..MaxFailures /\ outside \in 0..MaxOutside
        /\ left \subseteq Operation /\ missed \subseteq Operation /\ marked \subseteq Queued
    <3>1. sentWith \in [Operation -> Token]
      BY <1>4 DEF Init, Token
    <3>2. sending \in [Operation -> {"new", "sent", "stored", "queued", "answered", "lost"}]
      BY DEF Init
    <3>3. /\ user = First /\ loading = FALSE /\ shown = {} /\ failures = 0 /\ outside = 0
          /\ left = {} /\ missed = {} /\ marked = {}
          /\ work \in {"none", "enqueued"}
      BY DEF Init
    <3>4. user \in User \cup {Nobody} /\ loading \in BOOLEAN
      BY <1>4, <3>3
    <3>5. failures \in 0..MaxFailures /\ outside \in 0..MaxOutside
      BY <1>4, <3>3
    <3>6. shown \subseteq Operation /\ left \subseteq Operation /\ missed \subseteq Operation
      BY <3>3
    <3>7. marked \subseteq Queued /\ work \in {"none", "enqueued", "running", "finishing"}
      BY <3>3
    <3> QED
      BY <3>1, <3>2, <3>4, <3>5, <3>6, <3>7
  <2> QED
    BY <1>1, <1>2, <2>1, <2>2, <2>3 DEF TypeOK, Side
<1>6. SessionInv /\ SentInv /\ IdleInv
  BY <1>4 DEF Init, SessionInv, SentInv, IdleInv, Side
<1>7. OnceInv /\ HandInv /\ ConflictInv
  BY <1>1, <1>3 DEF Init, OnceInv, HandInv, ConflictInv, Side
<1>8. WorkInv
  BY <1>1 DEF Init, WorkInv
<1>9. LostOnlyByLeaving
  BY <1>1, QueueAssumption DEF Init, LostOnlyByLeaving
<1> QED
  BY <1>5, <1>6, <1>7, <1>8, <1>9 DEF IInv

-----------------------------------------------------------------------------
(***************************************************************************)
(* What most actions have in common.                                       *)
(***************************************************************************)

\* The rows do not change with the rest.
LEMMA SameRows ==
  ASSUME UNCHANGED queue
  PROVE  Rows' = Rows /\ Queued' = Queued
BY DEF Rows, Queued

\* Rows name operations, and 0 is a token that every repository may have.
LEMMA SimpleTypes ==
  ASSUME TypeOK
  PROVE  /\ Rows \subseteq Row
         /\ Queued \subseteq Operation /\ Sent \subseteq Operation
         /\ Len(logins) \in Nat /\ 0 \in 0..Len(logins)
<1>1. queue \in Seq(Row) /\ logins \in Seq(User)
  BY DEF TypeOK
<1>2. Rows \subseteq Row
  BY <1>1 DEF Rows, Range
<1>3. Queued \subseteq Operation
  BY <1>2 DEF Queued, Row
<1> QED
  BY <1>1, <1>2, <1>3 DEF Sent

\* RemovePending takes the row of the operation out.
LEMMA Removed ==
  ASSUME TypeOK, NEW o, RemovePending(o)
  PROVE  /\ queue' \in Seq(Row) /\ Cardinality(Queued') = Len(queue')
         /\ Rows' = {r \in Rows : r.op # o}
         /\ Queued' = Queued \ {o}
         /\ marked' = marked \ {o}
<1> DEFINE S == {r \in Rows : r.op # o}
<1>1. queue \in Seq(Row) /\ Cardinality(Queued) = Len(queue)
  BY DEF TypeOK
<1>2. Once(queue)
  BY <1>1, OnceCounts DEF Rows, Queued
<1>3. queue' = Select(S) /\ marked' = marked \ {o}
  BY DEF RemovePending
<1>4. Select(S) \in Seq(Row) /\ Range(Select(S)) = Rows \cap S /\ Once(Select(S))
  BY <1>1, <1>2, SelectRows
<1>5. Rows' = S
  BY <1>3, <1>4 DEF Rows
<1>6. Queued' = {r.op : r \in Rows'}
  BY DEF Queued
<1>7. Queued' = Queued \ {o}
  BY <1>5, <1>6 DEF Queued
<1>8. Cardinality(Queued') = Len(queue')
  BY <1>3, <1>4, <1>6, OnceCounts DEF Rows
<1> QED
  BY <1>3, <1>4, <1>5, <1>7, <1>8

\* An operation has one row.
LEMMA OneRow ==
  ASSUME TypeOK, NEW r \in Rows, NEW s \in Rows, r.op = s.op
  PROVE  r = s
<1>1. queue \in Seq(Row) /\ Once(queue)
  BY OnceCounts DEF TypeOK, Rows, Queued
<1>2. PICK i \in 1..Len(queue), j \in 1..Len(queue) : r = queue[i] /\ s = queue[j]
  BY <1>1 DEF Rows, Range
<1> QED
  BY <1>1, <1>2, Zenon DEF Once

\* What a repository has in hand, from what it has read.
LEMMA SameHand ==
  ASSUME NEW w, todo'[w] = todo[w], conflicts'[w] = conflicts[w]
  PROVE  Hand(w)' = Hand(w)
BY DEF Hand

LEMMA EmptyHand ==
  ASSUME NEW w, todo'[w] = <<>>, conflicts'[w] = {}
  PROVE  Hand(w)' = {}
BY DEF Hand, Range

\* While no row is added and nothing is read, what is in hand stays true.
LEMMA ReadsKept ==
  ASSUME OnceInv, HandInv, ConflictInv,
         Rows' \subseteq Rows, marked \cap Queued' \subseteq marked',
         \A o \in Operation : sending'[o] \in {"new", "sent"} => sending[o] \in {"new", "sent"},
         \A w \in Side : /\ Hand(w)' \subseteq Hand(w)
                         /\ Hand(w)' = {} \/ activeUser'[w] = activeUser[w]
                         /\ (conflicts'[w] \ conflicts[w]) \cap Queued' \subseteq marked',
         shown' \subseteq shown \cup conflicts["screen"]
  PROVE  OnceInv' /\ HandInv' /\ ConflictInv'
<1>1. Queued' \subseteq Queued
  BY DEF Queued
<1>2. conflicts["screen"] \subseteq Hand("screen")
  BY DEF Hand
<1>3. OnceInv'
  BY <1>1, <1>2 DEF OnceInv, Side
<1>4. HandInv'
  BY DEF HandInv
<1>5. ConflictInv'
  BY <1>1 DEF ConflictInv, Side
<1> QED
  BY <1>3, <1>4, <1>5

\* While no row is added and the saved session stays, work that comes to a row stays.
LEMMA WorkKept ==
  ASSUME WorkInv, Rows' \subseteq Rows, marked \cap Queued' \subseteq marked',
         missed \subseteq missed',
         \A r \in Rows' :
           sending'[r.op] = "queued" => sending[r.op] = "queued" \/ r.op \in missed',
         \/ savedToken = 0
         \/ savedToken' = savedToken /\ Owner(savedToken)' = Owner(savedToken)
         \/ Queued \subseteq missed',
         \/ work = "enqueued" /\ work' = "enqueued"
         \/ work = "running" /\ work' = "enqueued"
         \/ work = "running" /\ work' = "running" /\ WorkerUser' = WorkerUser
         \/ work \notin {"enqueued", "running"}
  PROVE  WorkInv'
<1> SUFFICES ASSUME NEW r \in Rows', sending'[r.op] = "queued", r.op \notin marked' \cup missed'
             PROVE  \/ savedToken' # 0 /\ Owner(savedToken)' # r.user
                    \/ work' = "enqueued"
                    \/ work' = "running" /\ WorkerUser' = r.user
  BY DEF WorkInv
<1>1. r \in Rows /\ r.op \in Queued' /\ r.op \in Queued
  BY DEF Queued
<1>2. sending[r.op] = "queued" /\ r.op \notin marked \cup missed
  BY <1>1
<1>3. \/ savedToken # 0 /\ Owner(savedToken) # r.user
      \/ work = "enqueued"
      \/ work = "running" /\ WorkerUser = r.user
  BY <1>1, <1>2 DEF WorkInv
<1> QED
  BY <1>1, <1>3

\* While no row is added, an operation is lost only as its maker leaves.
LEMMA LostKept ==
  ASSUME LostOnlyByLeaving, Rows' \subseteq Rows, left \subseteq left',
         \A o \in Operation : sending'[o] = "lost" => sending[o] = "lost" \/ o \in left'
  PROVE  LostOnlyByLeaving'
BY DEF LostOnlyByLeaving

-----------------------------------------------------------------------------
(***************************************************************************)
(* Every action preserves the invariant.                                   *)
(***************************************************************************)

LEMMA RevokeInv ==
  ASSUME IInv, NEW u \in User, Revoke(u)
  PROVE  IInv'
<1>1. /\ outside' \in 0..MaxOutside /\ revoked' \in [User -> 0..Len(logins)]
      /\ UNCHANGED <<posted, logins, saved, queue, marked, repositories, screen,
                     submissions, work, failures, left, missed>>
  BY QueueAssumption DEF Revoke, IInv, TypeOK
<1>2. Rows' = Rows /\ Queued' = Queued /\ \A w : Hand(w)' = Hand(w)
  BY <1>1, SameRows, SameHand DEF repositories
<1>3. TypeOK'
  BY <1>1, <1>2 DEF IInv, TypeOK, saved, repositories, screen, submissions
<1>4. SessionInv' /\ SentInv' /\ IdleInv'
  BY <1>1 DEF IInv, SessionInv, SentInv, IdleInv, saved, repositories, screen, submissions
<1>5. OnceInv' /\ HandInv' /\ ConflictInv'
  BY <1>1, <1>2 DEF IInv, OnceInv, HandInv, ConflictInv, repositories, screen, submissions
<1>6. WorkInv' /\ LostOnlyByLeaving'
  BY <1>1, <1>2
  DEF IInv, WorkInv, LostOnlyByLeaving, WorkerUser, Owner, saved, repositories, submissions
<1> QED
  BY <1>3, <1>4, <1>5, <1>6 DEF IInv

\* A login adds a token, and the others keep their users.
LEMMA EnterPasswordInv ==
  ASSUME IInv, NEW u \in User, EnterPassword(u)
  PROVE  IInv'
<1>1. /\ user = Nobody /\ step["screen"] = "off"
      /\ Len(logins) < MaxLogins /\ MaxLogins \in Nat
      /\ logins' = Append(logins, u)
      /\ token' = [token EXCEPT !["screen"] = Len(logins')]
      /\ step' = [step EXCEPT !["screen"] = "login"]
      /\ loading' = TRUE
      /\ UNCHANGED <<posted, revoked, saved, queue, marked, activeUser, todo, conflicts,
                     user, shown, submissions, work, bounds, left, missed>>
  BY QueueAssumption DEF EnterPassword
<1>2. Rows' = Rows /\ Queued' = Queued /\ \A w : Hand(w)' = Hand(w)
  BY <1>1, SameRows, SameHand
<1>3. /\ logins' \in Seq(User) /\ Len(logins') = Len(logins) + 1 /\ Len(logins) \in Nat
      /\ \A t \in 1..Len(logins) : logins'[t] = logins[t]
  BY <1>1 DEF IInv, TypeOK
<1>4. TypeOK'
  <2>1. /\ revoked' \in [User -> 0..Len(logins')]
        /\ savedToken' \in 0..Len(logins')
        /\ token' \in [Side -> 0..Len(logins')]
    <3>1. /\ revoked \in [User -> 0..Len(logins)] /\ revoked' = revoked
          /\ savedToken \in 0..Len(logins) /\ savedToken' = savedToken
          /\ token \in [Side -> 0..Len(logins)]
      BY <1>1 DEF IInv, TypeOK, saved
    <3>2. 0..Len(logins) \subseteq 0..Len(logins') /\ Len(logins') \in 0..Len(logins')
      BY <1>3
    <3> QED
      BY <1>1, <3>1, <3>2
  <2>2. /\ step' \in [Side -> {"off", "login", "me", "rows", "send", "end"}]
        /\ step'["worker"] # "off" => work = "running"
        /\ \A w \in Side : step'[w] = "send" => todo[w] # <<>>
    BY <1>1 DEF IInv, TypeOK, Side
  <2> QED
    BY <1>1, <1>2, <1>3, <2>1, <2>2 DEF IInv, TypeOK, saved, submissions, bounds
<1>5. SessionInv' /\ SentInv' /\ IdleInv'
  BY <1>1 DEF IInv, TypeOK, SessionInv, SentInv, IdleInv, saved, submissions, Side
<1>6. OnceInv' /\ HandInv' /\ ConflictInv'
  BY <1>1, <1>2 DEF IInv, OnceInv, HandInv, ConflictInv, submissions
<1>7. \A t \in 0..Len(logins) : Owner(t)' = Owner(t)
  BY <1>3 DEF Owner
<1>8. Owner(savedToken)' = Owner(savedToken) /\ WorkerUser' = WorkerUser
  BY <1>1, <1>7 DEF IInv, TypeOK, WorkerUser, saved, Side
<1>9. WorkInv' /\ LostOnlyByLeaving'
  BY <1>1, <1>2, <1>8 DEF IInv, WorkInv, LostOnlyByLeaving, saved, submissions
<1> QED
  BY <1>4, <1>5, <1>6, <1>9 DEF IInv

\* A good token belongs to a user.
LEMMA OwnerOfToken ==
  ASSUME TypeOK, NEW t \in 0..Len(logins)
  PROVE  /\ t # 0 => Owner(t) \in User /\ Owner(t) # Nobody
         /\ t = 0 => Owner(t) = Nobody
BY QueueAssumption DEF TypeOK, Owner

LEMMA LoginInv ==
  ASSUME IInv, Login
  PROVE  IInv'
<1> DEFINE t == token["screen"]
<1>1. /\ step["screen"] = "login"
      /\ step' = [step EXCEPT !["screen"] = "off"]
      /\ todo' = [todo EXCEPT !["screen"] = <<>>]
      /\ conflicts' = [conflicts EXCEPT !["screen"] = {}]
      /\ \/ /\ Good(t)
            /\ activeUser' = [activeUser EXCEPT !["screen"] = Owner(t)]
            /\ user' = Owner(t)
            /\ savedToken' = t /\ savedUser' = Owner(t)
            /\ UNCHANGED <<token, failures>>
         \/ /\ \/ UNCHANGED failures
               \/ failures < MaxFailures /\ failures' = failures + 1
            /\ token' = [token EXCEPT !["screen"] = 0]
            /\ UNCHANGED <<activeUser, user, saved>>
      /\ loading' = FALSE
      /\ UNCHANGED <<server, queue, marked, shown, submissions, work, outside, left, missed>>
  BY DEF Login, Idle
<1>2. Rows' = Rows /\ Queued' = Queued
  BY <1>1, SameRows
<1>3. user = Nobody /\ savedToken = 0 /\ t \in 0..Len(logins)
  BY <1>1 DEF IInv, SessionInv, TypeOK, Side
<1>4. Good(t) => t # 0 /\ Owner(t) \in User /\ Owner(t) # Nobody
  BY <1>3, OwnerOfToken DEF Good, IInv
<1>5. TypeOK'
  <2>1. /\ step' \in [Side -> {"off", "login", "me", "rows", "send", "end"}]
        /\ todo' \in [Side -> Seq(Operation)] /\ conflicts' \in [Side -> SUBSET Operation]
        /\ step'["worker"] # "off" => work = "running"
        /\ \A w \in Side : step'[w] = "send" => todo'[w] # <<>>
    BY <1>1 DEF IInv, TypeOK, Side
  <2>2. failures' \in 0..MaxFailures
    BY <1>1, QueueAssumption DEF IInv, TypeOK
  <2>3. /\ token' \in [Side -> 0..Len(logins)] /\ activeUser' \in [Side -> User \cup {Nobody}]
        /\ savedToken' \in 0..Len(logins) /\ savedUser' \in User \cup {Nobody}
        /\ user' \in User \cup {Nobody}
    <3>1. /\ token \in [Side -> 0..Len(logins)] /\ activeUser \in [Side -> User \cup {Nobody}]
          /\ savedToken \in 0..Len(logins) /\ savedUser \in User \cup {Nobody}
          /\ user \in User \cup {Nobody} /\ 0 \in 0..Len(logins)
      BY <1>3 DEF IInv, TypeOK
    <3>2. CASE Good(t) /\ token' = token
      BY <1>1, <1>3, <1>4, <3>1, <3>2 DEF saved
    <3>3. CASE token' = [token EXCEPT !["screen"] = 0]
      BY <1>1, <1>3, <1>4, <3>1, <3>3 DEF saved
    <3> QED
      BY <1>1, <3>2, <3>3
  <2> QED
    BY <1>1, <1>2, <2>1, <2>2, <2>3 DEF IInv, TypeOK, server, submissions
<1>6. SessionInv' /\ SentInv' /\ IdleInv'
  BY <1>1, <1>3, <1>4, QueueAssumption
  DEF IInv, TypeOK, SessionInv, SentInv, IdleInv, saved, submissions, Side
<1>7. Hand("screen")' = {} /\ Hand("worker")' = Hand("worker")
  BY <1>1, EmptyHand, SameHand DEF IInv, TypeOK, Side
<1>8. OnceInv' /\ HandInv' /\ ConflictInv'
  <2>1. \A w \in Side : /\ Hand(w)' \subseteq Hand(w)
                        /\ Hand(w)' = {} \/ activeUser'[w] = activeUser[w]
                        /\ (conflicts'[w] \ conflicts[w]) \cap Queued' \subseteq marked'
    BY <1>1, <1>7 DEF IInv, TypeOK, Side
  <2> QED
    BY <1>1, <1>2, <2>1, ReadsKept DEF IInv, submissions
<1>9. work' = work /\ WorkerUser' = WorkerUser
  BY <1>1 DEF IInv, TypeOK, WorkerUser, Owner, Side, server
<1>10. WorkInv'
  BY <1>1, <1>2, <1>3, <1>9, WorkKept DEF IInv, TypeOK, submissions
<1>11. LostOnlyByLeaving'
  BY <1>1, <1>2, LostKept DEF IInv, submissions
<1> QED
  BY <1>5, <1>6, <1>8, <1>10, <1>11 DEF IInv

\* Whatever answers, the server posts an operation once and for its maker.
LEMMA ServerPosts ==
  ASSUME TypeOK, NEW o \in Operation, NEW t,
         Unanswered(o, t) \/ Rejected(o, t) \/ Denied(t)
  PROVE  /\ UNCHANGED <<logins, revoked>>
         /\ Promise!Posting
         /\ Accepted(o, t) => posted'[o] # Nobody
<1>1. posted \in [Operation -> User \cup {Nobody}] /\ Nobody \notin User /\ Maker[o] \in User
  BY QueueAssumption DEF TypeOK
<1>2. CASE Accepted(o, t)
  <2>1. /\ Owner(t) = Maker[o] /\ UNCHANGED <<logins, revoked>>
        /\ posted' = IF posted[o] = Nobody THEN [posted EXCEPT ![o] = Owner(t)] ELSE posted
    BY <1>2 DEF Accepted, Own, Posted
  <2> QED
    BY <1>1, <2>1 DEF Promise!Posting
<1>3. CASE ~Accepted(o, t)
  <2>1. UNCHANGED server
    BY <1>3 DEF Unanswered, Rejected, Denied
  <2> QED
    BY <1>1, <1>3, <2>1 DEF Promise!Posting, server
<1> QED
  BY <1>2, <1>3

\* A request that is cancelled may still be handled.
LEMMA CancelPosts ==
  ASSUME TypeOK, CancelSend
  PROVE  UNCHANGED <<logins, revoked>> /\ Promise!Posting
<1>1. CASE step["screen"] = "send"
  <2>1. Head(todo["screen"]) \in Operation
    BY <1>1 DEF TypeOK, Side
  <2> QED
    BY <1>1, <2>1, ServerPosts DEF CancelSend
<1>2. CASE step["screen"] # "send"
  BY <1>2 DEF CancelSend, server, TypeOK, Promise!Posting
<1> QED
  BY <1>1, <1>2

LEMMA LogoutInv ==
  ASSUME IInv, Logout
  PROVE  IInv'
<1>1. /\ token' = [token EXCEPT !["screen"] = 0]
      /\ activeUser' = [activeUser EXCEPT !["screen"] = Nobody]
      /\ savedToken' = 0 /\ savedUser' = Nobody
      /\ missed' = missed \cup Queued
      /\ step' = [step EXCEPT !["screen"] = "off"]
      /\ todo' = [todo EXCEPT !["screen"] = <<>>]
      /\ conflicts' = [conflicts EXCEPT !["screen"] = {}]
      /\ loading' \in BOOLEAN
      /\ CancelSend
      /\ user' = Nobody /\ shown' = {}
      /\ left' = left \cup Sent
      /\ UNCHANGED <<queue, marked, submissions, work, bounds>>
  BY DEF Logout, LogoutOf, CancelRefresh, Idle, IInv, TypeOK
<1>2. Rows' = Rows /\ Queued' = Queued
  BY <1>1, SameRows
<1>3. logins' = logins /\ revoked' = revoked /\ posted' \in [Operation -> User \cup {Nobody}]
  BY <1>1, CancelPosts DEF IInv, Promise!Posting
<1>4. TypeOK'
  <2>1. /\ step' \in [Side -> {"off", "login", "me", "rows", "send", "end"}]
        /\ todo' \in [Side -> Seq(Operation)] /\ conflicts' \in [Side -> SUBSET Operation]
        /\ step'["worker"] # "off" => work = "running"
        /\ \A w \in Side : step'[w] = "send" => todo'[w] # <<>>
    BY <1>1 DEF IInv, TypeOK, Side
  <2>2. /\ token' \in [Side -> 0..Len(logins)] /\ activeUser' \in [Side -> User \cup {Nobody}]
        /\ savedToken' \in 0..Len(logins) /\ savedUser' \in User \cup {Nobody}
    <3>1. /\ token \in [Side -> 0..Len(logins)] /\ activeUser \in [Side -> User \cup {Nobody}]
          /\ 0 \in 0..Len(logins)
      BY SimpleTypes DEF IInv, TypeOK
    <3> QED
      BY <1>1, <3>1
  <2>3. missed' \subseteq Operation /\ left' \subseteq Operation
    <3>1. missed \subseteq Operation /\ left \subseteq Operation
      BY DEF IInv, TypeOK
    <3> QED
      BY <1>1, <3>1, SimpleTypes DEF IInv
  <2> QED
    BY <1>1, <1>2, <1>3, <2>1, <2>2, <2>3 DEF IInv, TypeOK, submissions, bounds
<1>5. SessionInv' /\ SentInv' /\ IdleInv'
  BY <1>1 DEF IInv, TypeOK, SessionInv, SentInv, IdleInv, Sent, submissions, Side
<1>6. Hand("screen")' = {} /\ Hand("worker")' = Hand("worker")
  BY <1>1, EmptyHand, SameHand DEF IInv, TypeOK, Side
<1>7. OnceInv' /\ HandInv' /\ ConflictInv'
  <2>1. \A w \in Side : /\ Hand(w)' \subseteq Hand(w)
                        /\ Hand(w)' = {} \/ activeUser'[w] = activeUser[w]
                        /\ (conflicts'[w] \ conflicts[w]) \cap Queued' \subseteq marked'
    BY <1>1, <1>6 DEF IInv, TypeOK, Side
  <2> QED
    BY <1>1, <1>2, <2>1, ReadsKept DEF IInv, submissions
<1>8. work' = work /\ WorkerUser' = WorkerUser
  BY <1>1, <1>3 DEF IInv, TypeOK, WorkerUser, Owner, Side
<1>9. WorkInv'
  BY <1>1, <1>2, <1>8, WorkKept DEF IInv, TypeOK, submissions
<1>10. LostOnlyByLeaving'
  BY <1>1, <1>2, LostKept DEF IInv, submissions
<1> QED
  BY <1>4, <1>5, <1>7, <1>9, <1>10 DEF IInv

\* What senders that are gone have had posted.
LEMMA RestartPosts ==
  ASSUME TypeOK, NEW Q, posted' \in PostedSome(Q)
  PROVE  Promise!Posting
<1>1. PICK H : posted' = [o \in Operation |-> IF o \in H /\ posted[o] = Nobody
                                              THEN Maker[o] ELSE posted[o]]
  BY DEF PostedSome
<1>2. posted \in [Operation -> User \cup {Nobody}] /\ Maker \in [Operation -> User]
  BY QueueAssumption DEF TypeOK
<1> QED
  BY <1>1, <1>2 DEF Promise!Posting

\* After a restart every operation that was being sent is lost, and its maker has left.
LEMMA RestartInv ==
  ASSUME IInv, NEW W \in {{"screen"}, Side}, Restart(W)
  PROVE  IInv'
<1>1. /\ token' = [w \in Side |-> IF w \in W THEN savedToken ELSE token[w]]
      /\ activeUser' = [w \in Side |-> IF w \in W THEN savedUser ELSE activeUser[w]]
      /\ todo' = [w \in Side |-> IF w \in W THEN <<>> ELSE todo[w]]
      /\ conflicts' = [w \in Side |-> IF w \in W THEN {} ELSE conflicts[w]]
      /\ step' = [w \in Side |-> IF w \notin W THEN step[w]
                                 ELSE IF w = "screen" /\ savedToken # 0 THEN "me" ELSE "off"]
  BY DEF Restart, NewRepositories
<1>2. /\ outside < MaxOutside /\ outside' = outside + 1
      /\ work' = IF "worker" \in W /\ work # "none" THEN "enqueued" ELSE work
      /\ user' = Nobody /\ loading' = FALSE /\ shown' = {}
      /\ left' = left \cup Sent
      /\ missed' = missed \cup {o \in Operation : sending[o] = "stored"}
      /\ sentWith' = [o \in Operation |-> 0]
      /\ UNCHANGED <<logins, revoked, saved, queue, marked, failures>>
  BY DEF Restart
<1>3. sending' = [o \in Operation |-> CASE sending[o] = "sent"   -> "lost"
                                        [] sending[o] = "stored" -> "queued"
                                        [] OTHER                 -> sending[o]]
  BY DEF Restart
<1>4. "screen" \in W /\ W \subseteq Side /\ Side = {"screen", "worker"}
  BY DEF Side
<1>5. Rows' = Rows /\ Queued' = Queued
  BY <1>2, SameRows
<1>6. posted' \in [Operation -> User \cup {Nobody}]
  BY RestartPosts DEF Restart, IInv, Promise!Posting
<1>7. /\ sending' \in [Operation -> {"new", "sent", "stored", "queued", "answered", "lost"}]
      /\ \A o \in Operation :
           /\ sending'[o] # "sent"
           /\ sending'[o] = "new" => sending[o] = "new"
           /\ sending'[o] = "queued" => sending[o] = "queued" \/ o \in missed'
           /\ sending'[o] = "lost" => sending[o] = "lost" \/ o \in left'
  <2>1. \A o \in Operation : sending[o] \in {"new", "sent", "stored", "queued", "answered", "lost"}
    BY DEF IInv, TypeOK
  <2> QED
    BY <1>2, <1>3, <2>1 DEF Sent
<1>8. TypeOK'
  <2>1. /\ step' \in [Side -> {"off", "login", "me", "rows", "send", "end"}]
        /\ todo' \in [Side -> Seq(Operation)] /\ conflicts' \in [Side -> SUBSET Operation]
        /\ step'["worker"] # "off" => work' = "running"
        /\ \A w \in Side : step'[w] = "send" => todo'[w] # <<>>
    BY <1>1, <1>2, <1>4 DEF IInv, TypeOK
  <2>2. /\ token' \in [Side -> 0..Len(logins)] /\ activeUser' \in [Side -> User \cup {Nobody}]
    BY <1>1 DEF IInv, TypeOK
  <2>3. missed' \subseteq Operation /\ left' \subseteq Operation
    BY <1>2, SimpleTypes DEF IInv, TypeOK
  <2>4. /\ work' \in {"none", "enqueued", "running", "finishing"}
        /\ outside' \in 0..MaxOutside
    BY <1>2, QueueAssumption DEF IInv, TypeOK
  <2>5. sentWith' \in [Operation -> Token]
    BY <1>2, QueueAssumption DEF Token
  <2> QED
    BY <1>2, <1>5, <1>6, <1>7, <2>1, <2>2, <2>3, <2>4, <2>5 DEF IInv, TypeOK, saved
<1>9. SessionInv' /\ SentInv' /\ IdleInv'
  BY <1>1, <1>2, <1>4, <1>7 DEF IInv, SessionInv, SentInv, IdleInv, saved
<1>10. \A w \in Side : (w \in W => Hand(w)' = {}) /\ (w \notin W => Hand(w)' = Hand(w))
  BY <1>1, EmptyHand, SameHand
<1>11. OnceInv' /\ HandInv' /\ ConflictInv'
  <2>1. \A w \in Side : /\ Hand(w)' \subseteq Hand(w)
                        /\ Hand(w)' = {} \/ activeUser'[w] = activeUser[w]
                        /\ (conflicts'[w] \ conflicts[w]) \cap Queued' \subseteq marked'
    BY <1>1, <1>10
  <2> QED
    BY <1>2, <1>5, <1>7, <2>1, ReadsKept DEF IInv
<1>12. WorkInv'
  <2>1. CASE W = {"screen"}
    <3>1. work' = work /\ WorkerUser' = WorkerUser
      BY <1>1, <1>2, <2>1, <1>4 DEF WorkerUser, Owner
    <3> QED
      BY <1>2, <1>5, <1>7, <3>1, SimpleTypes, WorkKept DEF IInv, TypeOK, Owner, saved, Queued
  <2>2. CASE W = Side
    <3>1. work # "none" => work' = "enqueued"
      BY <1>2, <1>4, <2>2
    <3>2. work = "none" => work' = "none"
      BY <1>2
    <3> QED
      BY <1>2, <1>5, <1>7, <3>1, <3>2, SimpleTypes, WorkKept
      DEF IInv, TypeOK, Owner, saved, Queued
  <2> QED
    BY <2>1, <2>2
<1>13. LostOnlyByLeaving'
  BY <1>2, <1>5, <1>7, LostKept DEF IInv
<1> QED
  BY <1>8, <1>9, <1>11, <1>12, <1>13 DEF IInv

\* A profile that is loaded is that of a user.
LEMMA RestoreSessionInv ==
  ASSUME IInv, NEW w \in Side, RestoreSession(w)
  PROVE  IInv'
<1> DEFINE t == token[w]
           Loaded == /\ activeUser' = [activeUser EXCEPT ![w] = Owner(t)]
                     /\ savedUser' = Owner(t) /\ savedToken' = savedToken /\ missed' = missed
                     /\ Owner(t) \in User /\ Owner(t) # Nobody /\ Restored(w)
           Cached == /\ activeUser' = [activeUser EXCEPT ![w] = savedUser]
                     /\ savedUser' = savedUser /\ savedToken' = savedToken
                     /\ savedUser \in User /\ savedUser # Nobody /\ Restored(w)
                     /\ missed' = IF savedUser = Owner(t) THEN missed ELSE missed \cup Queued
<1>1. /\ step[w] = "me"
      /\ failures' \in 0..MaxFailures
      /\ UNCHANGED <<server, queue, marked, todo, conflicts, loading, shown, submissions,
                     outside, left>>
  BY QueueAssumption DEF RestoreSession, IInv, TypeOK
<1>2. t \in 0..Len(logins) /\ (t # 0 => Owner(t) \in User /\ Owner(t) # Nobody)
  BY OwnerOfToken DEF IInv, TypeOK
<1>3. Loaded \/ Cached \/ NotRestored(w)
  <2>1. Good(t) => Owner(t) \in User /\ Owner(t) # Nobody
    BY <1>2 DEF Good
  <2>2. savedUser \in User \cup {Nobody}
    BY DEF IInv, TypeOK
  <2> QED
    BY <2>1, <2>2, Zenon DEF RestoreSession, Restored
<1>4. Rows' = Rows /\ Queued' = Queued /\ \A v : Hand(v)' = Hand(v)
  BY <1>1, SameRows, SameHand
<1>5. logins' = logins /\ revoked' = revoked /\ posted' = posted
  BY <1>1 DEF server
<1>6. todo[w] = <<>> /\ conflicts[w] = {} /\ Hand(w) = {}
  <2>1. todo[w] = <<>> /\ conflicts[w] = {}
    BY <1>1 DEF IInv, IdleInv
  <2> QED
    BY <2>1 DEF Hand, Range
<1>7. TypeOK'
  <2>1. /\ token' \in [Side -> 0..Len(logins)] /\ activeUser' \in [Side -> User \cup {Nobody}]
        /\ savedToken' \in 0..Len(logins) /\ savedUser' \in User \cup {Nobody}
        /\ missed' \subseteq Operation
    <3>1. /\ token \in [Side -> 0..Len(logins)] /\ activeUser \in [Side -> User \cup {Nobody}]
          /\ savedToken \in 0..Len(logins) /\ savedUser \in User \cup {Nobody}
          /\ missed \subseteq Operation /\ Queued \subseteq Operation /\ 0 \in 0..Len(logins)
      BY SimpleTypes DEF IInv, TypeOK
    <3>2. CASE Loaded
      BY <3>1, <3>2 DEF Restored
    <3>3. CASE Cached
      BY <3>1, <3>3 DEF Restored
    <3>4. CASE NotRestored(w)
      BY <3>1, <3>4 DEF NotRestored, LogoutOf
    <3> QED
      BY <1>3, <3>2, <3>3, <3>4
  <2>2. /\ step' \in [Side -> {"off", "login", "me", "rows", "send", "end"}]
        /\ step'["worker"] # "off" => work' = "running"
        /\ \A v \in Side : step'[v] = "send" => todo'[v] # <<>>
        /\ work' \in {"none", "enqueued", "running", "finishing"}
        /\ user' \in User \cup {Nobody}
    <3>1. /\ step \in [Side -> {"off", "login", "me", "rows", "send", "end"}]
          /\ step["worker"] # "off" => work = "running"
          /\ \A v \in Side : step[v] = "send" => todo[v] # <<>>
          /\ work \in {"none", "enqueued", "running", "finishing"}
          /\ user \in User \cup {Nobody} /\ activeUser'["screen"] \in User \cup {Nobody}
      BY <2>1 DEF IInv, TypeOK, Side
    <3>2. CASE Restored(w)
      BY <1>1, <3>1, <3>2 DEF Restored, Side
    <3>3. CASE NotRestored(w)
      BY <1>1, <3>1, <3>3 DEF NotRestored, Side
    <3> QED
      BY <1>3, <3>2, <3>3
  <2> QED
    BY <1>1, <1>4, <1>5, <2>1, <2>2 DEF IInv, TypeOK, submissions
<1>8. SessionInv' /\ SentInv' /\ IdleInv'
  <2>0. /\ SessionInv /\ SentInv /\ IdleInv
        /\ step \in [Side -> {"off", "login", "me", "rows", "send", "end"}]
        /\ activeUser \in [Side -> User \cup {Nobody}]
        /\ \A o \in Operation : Maker[o] # Nobody
    BY QueueAssumption DEF IInv, TypeOK
  <2>1. CASE Loaded \/ Cached
    BY <1>1, <2>0, <2>1 DEF Restored, SessionInv, SentInv, IdleInv, submissions, Side
  <2>2. CASE NotRestored(w)
    BY <1>1, <2>0, <2>2 DEF NotRestored, LogoutOf, SessionInv, SentInv, IdleInv, submissions, Side
  <2> QED
    BY <1>3, <2>1, <2>2
<1>9. OnceInv' /\ HandInv' /\ ConflictInv'
  <2>1. \A v \in Side \ {w} : activeUser'[v] = activeUser[v]
    BY <1>3 DEF IInv, TypeOK, NotRestored, LogoutOf
  <2>2. \A v \in Side : /\ Hand(v)' \subseteq Hand(v)
                        /\ Hand(v)' = {} \/ activeUser'[v] = activeUser[v]
                        /\ (conflicts'[v] \ conflicts[v]) \cap Queued' \subseteq marked'
    BY <1>1, <1>4, <1>6, <2>1
  <2> QED
    BY <1>1, <1>4, <2>2, ReadsKept DEF IInv, submissions
<1>10. WorkInv'
  <2>1. CASE NotRestored(w)
    <3>1. missed' = missed \cup Queued
      BY <2>1 DEF NotRestored, LogoutOf
    <3> QED
      BY <1>4, <3>1 DEF WorkInv, Queued
  <2>2. CASE missed' = missed \cup Queued
    BY <1>4, <2>2 DEF WorkInv, Queued
  <2>3. CASE (Loaded \/ Cached) /\ missed' = missed
    <3>1. work' = work /\ savedToken' = savedToken
      BY <2>3 DEF Restored
    <3>2. \/ activeUser' = [activeUser EXCEPT ![w] = Owner(t)]
          \/ savedUser # Owner(t) /\ Queued \subseteq missed
      BY <2>3
    <3>3. CASE Queued \subseteq missed
      BY <1>4, <2>3, <3>3 DEF WorkInv, Queued
    <3>4. CASE activeUser' = [activeUser EXCEPT ![w] = Owner(t)]
      <4>1. Owner(savedToken)' = Owner(savedToken)
        BY <1>5, <3>1 DEF Owner
      <4>2. WorkerUser' = WorkerUser
        <5>1. CASE w = "worker"
          BY <1>1, <2>3, <3>4, <5>1 DEF WorkerUser, Restored, IInv, TypeOK, Side
        <5>2. CASE w = "screen"
          BY <1>5, <2>3, <3>4, <5>2 DEF WorkerUser, Owner, Restored, IInv, TypeOK, Side
        <5> QED
          BY <5>1, <5>2 DEF Side
      <4> QED
        BY <1>1, <1>4, <2>3, <3>1, <4>1, <4>2, WorkKept DEF IInv, TypeOK, submissions
    <3> QED
      BY <3>2, <3>3, <3>4
  <2> QED
    BY <1>3, <2>1, <2>2, <2>3
<1>11. LostOnlyByLeaving'
  BY <1>1, <1>4, LostKept DEF IInv, submissions
<1> QED
  BY <1>7, <1>8, <1>9, <1>10, <1>11 DEF IInv

LEMMA SubmitInv ==
  ASSUME IInv, NEW o \in Operation, Submit(o)
  PROVE  IInv'
<1>1. /\ user = Maker[o] /\ sending[o] = "new"
      /\ sending' = [sending EXCEPT ![o] = "sent"]
      /\ sentWith' = [sentWith EXCEPT ![o] = token["screen"]]
      /\ loading' = TRUE
      /\ UNCHANGED <<server, saved, queue, marked, repositories, user, shown, work, bounds,
                     left, missed>>
  BY DEF Submit
<1>2. Rows' = Rows /\ Queued' = Queued /\ \A w : Hand(w)' = Hand(w)
  BY <1>1, SameRows, SameHand DEF repositories
<1>3. /\ sending' \in [Operation -> {"new", "sent", "stored", "queued", "answered", "lost"}]
      /\ \A q \in Operation : sending'[q] \in {"new", "sent"} => sending[q] \in {"new", "sent"}
      /\ \A q \in Operation : sending'[q] = "queued" => sending[q] = "queued"
      /\ \A q \in Operation : sending'[q] = "lost" => sending[q] = "lost"
  BY <1>1 DEF IInv, TypeOK
<1>4. TypeOK'
  <2>1. sentWith' \in [Operation -> Token]
    <3>1. 0..Len(logins) \subseteq Token
      BY SimpleTypes, QueueAssumption DEF IInv, TypeOK, Token
    <3> QED
      BY <1>1, <3>1 DEF IInv, TypeOK, Side
  <2> QED
    BY <1>1, <1>2, <1>3, <2>1 DEF IInv, TypeOK, server, saved, repositories, bounds
<1>5. SessionInv' /\ SentInv' /\ IdleInv'
  BY <1>1 DEF IInv, TypeOK, SessionInv, SentInv, IdleInv, saved, repositories
<1>6. OnceInv' /\ HandInv' /\ ConflictInv'
  BY <1>1, <1>2, <1>3, ReadsKept DEF IInv, repositories
<1>7. WorkInv'
  <2>1. \A r \in Rows : r.op \in Operation
    BY SimpleTypes DEF IInv, Row
  <2> QED
    BY <1>1, <1>2, <1>3, <2>1, WorkKept
    DEF IInv, TypeOK, saved, server, repositories, Owner, WorkerUser
<1>8. LostOnlyByLeaving'
  BY <1>1, <1>2, <1>3, LostKept DEF IInv
<1> QED
  BY <1>4, <1>5, <1>6, <1>7, <1>8 DEF IInv

\* A new row is stored for the user who made the operation, and for the first time.
LEMMA SubmitOrQueueInv ==
  ASSUME IInv, NEW o \in Operation, SubmitOrQueue(o)
  PROVE  IInv'
<1> DEFINE t == sentWith[o]
           row == [op |-> o, user |-> activeUser["screen"]]
           Stored == /\ activeUser["screen"] # Nobody
                     /\ queue' = Append(queue, row)
                     /\ sending' = [sending EXCEPT ![o] = "stored"]
           Over == /\ queue' = queue
                   /\ \/ sending' = [sending EXCEPT ![o] = "answered"]
                      \/ /\ activeUser["screen"] = Nobody
                         /\ sending' = [sending EXCEPT ![o] = "lost"]
<1>1. /\ sending[o] = "sent"
      /\ sentWith' = [sentWith EXCEPT ![o] = 0]
      /\ UNCHANGED <<saved, marked, repositories, user, shown, work, outside, left, missed>>
  BY DEF SubmitOrQueue
<1>2. Stored \/ Over
  BY DEF SubmitOrQueue, QueueOperation, FiledUnder, Enqueue
<1>3. failures' \in 0..MaxFailures /\ loading' \in BOOLEAN
  <2>1. failures \in 0..MaxFailures /\ MaxFailures \in Nat /\ loading \in BOOLEAN
    BY QueueAssumption DEF IInv, TypeOK
  <2>2. failures' = failures \/ (failures < MaxFailures /\ failures' = failures + 1)
    BY DEF SubmitOrQueue, GiveUp
  <2>3. loading' = FALSE \/ loading' = loading
    BY DEF SubmitOrQueue, QueueOperation
  <2>4. failures' \in 0..MaxFailures
    BY <2>1, <2>2
  <2>5. loading' \in BOOLEAN
    BY <2>1, <2>3, Zenon
  <2> QED
    BY <2>4, <2>5
<1>4. logins' = logins /\ revoked' = revoked /\ posted' \in [Operation -> User \cup {Nobody}]
  <2>1. Unanswered(o, t) \/ Rejected(o, t) \/ Denied(t)
    BY Zenon DEF SubmitOrQueue, GiveUp, Unanswered
  <2> QED
    BY <2>1, ServerPosts DEF IInv, Promise!Posting
<1>5. /\ sending' \in [Operation -> {"new", "sent", "stored", "queued", "answered", "lost"}]
      /\ \A q \in Operation \ {o} : sending'[q] = sending[q]
      /\ sending'[o] \in {"stored", "answered", "lost"}
      /\ sending'[o] = "lost" => activeUser["screen"] = Nobody
  BY <1>2 DEF IInv, TypeOK
<1>6. o \notin Queued /\ o \notin shown /\ \A w \in Side : o \notin Hand(w)
  BY <1>1 DEF IInv, OnceInv
<1>7. /\ queue' \in Seq(Row) /\ Cardinality(Queued') = Len(queue')
      /\ Rows \subseteq Rows' /\ Queued \subseteq Queued'
      /\ \A r \in Rows' \ Rows : r = row /\ Stored
      /\ Queued' \subseteq Queued \cup {o}
  <2>1. CASE Over
    BY <2>1, SameRows DEF IInv, TypeOK
  <2>2. CASE Stored
    <3>1. /\ queue \in Seq(Row) /\ row \in Row /\ Once(queue)
      BY <2>2, OnceCounts DEF IInv, TypeOK, Row, Side, Rows, Queued
    <3>2. /\ Append(queue, row) \in Seq(Row)
          /\ Len(Append(queue, row)) = Len(queue) + 1
          /\ \A i \in 1..Len(queue) : Append(queue, row)[i] = queue[i]
          /\ Append(queue, row)[Len(queue) + 1] = row
          /\ Len(queue) \in Nat
      BY <3>1, Appended
    <3>3. queue' = Append(queue, row)
      BY <2>2
    <3> HIDE DEF row
    <3>4. Rows' = Rows \cup {row}
      BY <3>1, <3>2, <3>3 DEF Rows, Range
    <3>5. row.op = o
      BY DEF row
    <3>6. Queued' = Queued \cup {o}
      BY <3>4, <3>5 DEF Queued
    <3>7. IsFiniteSet(Queued) /\ Cardinality(Queued) = Len(queue)
      BY <3>1, OnceCounts DEF Rows, Queued
    <3>8. Cardinality(Queued') = Len(queue')
      <4>1. Cardinality(Queued \cup {o}) = Cardinality(Queued) + 1
        BY <1>6, <3>7, FS_AddElement
      <4> QED
        BY <3>2, <3>3, <3>6, <3>7, <4>1
    <3> QED
      BY <2>2, <3>2, <3>3, <3>4, <3>6, <3>8
  <2> QED
    BY <1>2, <2>1, <2>2
<1>8. TypeOK'
  <2>1. sentWith' \in [Operation -> Token]
    BY <1>1, QueueAssumption DEF IInv, TypeOK, Token
  <2> QED
    BY <1>1, <1>3, <1>4, <1>5, <1>7, <2>1 DEF IInv, TypeOK, saved, repositories
<1>9. SessionInv' /\ SentInv' /\ IdleInv'
  BY <1>1, <1>5 DEF IInv, SessionInv, SentInv, IdleInv, saved, repositories
<1>10. \A w : Hand(w)' = Hand(w)
  BY <1>1, SameHand DEF repositories
<1>11. OnceInv'
  BY <1>1, <1>5, <1>7, <1>10 DEF IInv, OnceInv
<1>12. HandInv'
  <2> SUFFICES ASSUME NEW w \in Side, NEW r \in Rows', r.op \in Hand(w)
               PROVE  r.user = activeUser[w]
    BY <1>1, <1>10 DEF HandInv, repositories
  <2>1. r \in Rows
    BY <1>6, <1>7
  <2> QED
    BY <2>1 DEF IInv, HandInv
<1>13. ConflictInv'
  <2>1. o \notin shown \cup conflicts["screen"] \cup conflicts["worker"]
    BY <1>6 DEF Hand, Side
  <2> QED
    BY <1>1, <1>7, <2>1 DEF IInv, ConflictInv, repositories
<1>14. WorkInv'
  <2> SUFFICES ASSUME NEW r \in Rows', sending'[r.op] = "queued", r.op \notin marked \cup missed
               PROVE  \/ savedToken # 0 /\ Owner(savedToken) # r.user
                      \/ work = "enqueued"
                      \/ work = "running" /\ WorkerUser = r.user
    BY <1>1, <1>4 DEF WorkInv, Owner, WorkerUser, saved, repositories
  <2>1. r.op # o
    BY <1>5
  <2>2. r \in Rows
    BY <1>7, <2>1
  <2>3. r.op \in Operation
    BY <2>2, SimpleTypes DEF IInv, Row
  <2> QED
    BY <1>5, <2>1, <2>2, <2>3 DEF IInv, WorkInv
<1>15. LostOnlyByLeaving'
  <2>1. o \notin left => user = Maker[o] /\ activeUser["screen"] = Maker[o] /\ Maker[o] # Nobody
    BY <1>1, QueueAssumption DEF IInv, SentInv, SessionInv
  <2> SUFFICES ASSUME NEW q \in Operation \ left
               PROVE  sending'[q] # "lost" /\ \A r \in Rows' : r.op = q => r.user = Maker[q]
    BY <1>1 DEF LostOnlyByLeaving
  <2>2. sending'[q] # "lost"
    BY <1>5, <2>1 DEF IInv, LostOnlyByLeaving
  <2>3. ASSUME NEW r \in Rows', r.op = q
        PROVE  r.user = Maker[q]
    BY <1>7, <2>1, <2>3 DEF IInv, LostOnlyByLeaving
  <2> QED
    BY <2>2, <2>3
<1> QED
  BY <1>8, <1>9, <1>11, <1>12, <1>13, <1>14, <1>15 DEF IInv

\* The row of an operation is worked for, or known to be missed.
LEMMA ScheduleInv ==
  ASSUME IInv, NEW o \in Operation, Schedule(o)
  PROVE  IInv'
<1>1. /\ sending[o] = "stored"
      /\ sending' = [sending EXCEPT ![o] = "queued"]
      /\ work' = IF work = "none" THEN "enqueued" ELSE work
      /\ loading' = FALSE
      /\ missed' = IF \/ work = "finishing"
                      \/ work = "running" /\ \E r \in Rows : r.op = o /\ r.user # WorkerUser
                   THEN missed \cup {o} ELSE missed
      /\ UNCHANGED <<server, saved, queue, marked, repositories, user, shown, sentWith,
                     bounds, left>>
  BY DEF Schedule, Scheduled
<1>2. Rows' = Rows /\ Queued' = Queued /\ \A w : Hand(w)' = Hand(w)
  BY <1>1, SameRows, SameHand DEF repositories
<1>3. /\ sending' \in [Operation -> {"new", "sent", "stored", "queued", "answered", "lost"}]
      /\ \A q \in Operation : sending'[q] \in {"new", "sent", "lost"} => sending[q] = sending'[q]
      /\ \A q \in Operation : sending'[q] = "queued" => sending[q] = "queued" \/ q = o
  BY <1>1 DEF IInv, TypeOK
<1>4. TypeOK'
  <2>1. /\ missed' \subseteq Operation
        /\ work' \in {"none", "enqueued", "running", "finishing"}
        /\ work = "running" => work' = "running"
    BY <1>1 DEF IInv, TypeOK
  <2> QED
    BY <1>1, <1>2, <1>3, <2>1 DEF IInv, TypeOK, server, saved, repositories, bounds
<1>5. SessionInv' /\ SentInv' /\ IdleInv'
  BY <1>1, <1>3 DEF IInv, SessionInv, SentInv, IdleInv, saved, repositories
<1>6. OnceInv' /\ HandInv' /\ ConflictInv'
  BY <1>1, <1>2, <1>3, ReadsKept DEF IInv, repositories
<1>7. WorkInv'
  <2> SUFFICES ASSUME NEW r \in Rows, sending'[r.op] = "queued", r.op \notin marked \cup missed'
               PROVE  \/ savedToken # 0 /\ Owner(savedToken) # r.user
                      \/ work' = "enqueued"
                      \/ work' = "running" /\ WorkerUser = r.user
    BY <1>1, <1>2 DEF WorkInv, Owner, WorkerUser, server, saved, repositories
  <2>1. r.op \in Operation /\ r.op \notin missed
    BY <1>1, SimpleTypes DEF IInv, Row
  <2>2. CASE r.op = o
    <3>1. work \in {"none", "enqueued", "running", "finishing"}
      BY DEF IInv, TypeOK
    <3> QED
      BY <1>1, <2>2, <3>1
  <2>3. CASE r.op # o
    BY <1>1, <1>3, <2>1, <2>3 DEF IInv, WorkInv
  <2> QED
    BY <2>2, <2>3
<1>8. LostOnlyByLeaving'
  BY <1>1, <1>2, <1>3, LostKept DEF IInv
<1> QED
  BY <1>4, <1>5, <1>6, <1>7, <1>8 DEF IInv

LEMMA DiscardPendingInv ==
  ASSUME IInv, NEW o \in Operation, DiscardPending(o)
  PROVE  IInv'
<1>1. /\ RemovePending(o)
      /\ shown' = shown \ {o}
      /\ UNCHANGED <<server, saved, repositories, user, loading, submissions, work, bounds, left,
                     missed>>
  BY DEF DiscardPending
<1>2. /\ queue' \in Seq(Row) /\ Cardinality(Queued') = Len(queue')
      /\ Rows' \subseteq Rows
      /\ Queued' = Queued \ {o}
      /\ marked' = marked \ {o}
      /\ \A w : Hand(w)' = Hand(w)
  BY <1>1, Removed, SameHand DEF IInv, repositories
<1>3. TypeOK'
  BY <1>1, <1>2 DEF IInv, TypeOK, server, saved, repositories, submissions, bounds
<1>4. SessionInv' /\ SentInv' /\ IdleInv'
  BY <1>1 DEF IInv, SessionInv, SentInv, IdleInv, saved, repositories, submissions
<1>5. marked \cap Queued' \subseteq marked'
  BY <1>2
<1>6. OnceInv' /\ HandInv' /\ ConflictInv'
  BY <1>1, <1>2, <1>5, ReadsKept DEF IInv, repositories, submissions
<1>7. WorkInv'
  BY <1>1, <1>2, <1>5, WorkKept
  DEF IInv, TypeOK, saved, server, repositories, submissions, Owner, WorkerUser
<1>8. LostOnlyByLeaving'
  BY <1>1, <1>2, LostKept DEF IInv, submissions
<1> QED
  BY <1>3, <1>4, <1>6, <1>7, <1>8 DEF IInv

\* What a repository reads: the rows of its user, and those of them that were refused.
LEMMA Reading ==
  ASSUME TypeOK, NEW w \in Side, ReadRows(w), UNCHANGED <<queue, marked>>
  PROVE  /\ todo' \in [Side -> Seq(Operation)] /\ conflicts' \in [Side -> SUBSET Operation]
         /\ step' \in [Side -> {"off", "login", "me", "rows", "send", "end"}]
         /\ \A v \in Side \ {w} : /\ todo'[v] = todo[v] /\ conflicts'[v] = conflicts[v]
                                  /\ step'[v] = step[v] /\ Hand(v)' = Hand(v)
         /\ step'[w] \in {"send", "end"}
         /\ step'[w] = "send" => todo'[w] # <<>>
         /\ conflicts'[w] \subseteq marked
         /\ \A o \in Hand(w)' : \E r \in Rows : r.op = o /\ r.user = activeUser[w]
         /\ UNCHANGED <<token, activeUser>>
<1> DEFINE mine == {r \in Rows : r.user = activeUser[w]}
           rows == Select(mine)
           ops == [i \in DOMAIN rows |-> rows[i].op]
           seen == {r.op : r \in Range(rows)} \cap marked
<1>1. rows \in Seq(Row) /\ Range(rows) = mine
  BY SelectRows DEF TypeOK
<1>2. /\ todo' = [todo EXCEPT ![w] = ops]
      /\ conflicts' = [conflicts EXCEPT ![w] = seen]
      /\ step' = [step EXCEPT ![w] = IF rows = <<>> THEN "end" ELSE "send"]
      /\ UNCHANGED <<token, activeUser>>
  BY DEF ReadRows, RowsOf
<1> HIDE DEF rows
<1>3. DOMAIN rows = 1..Len(rows) /\ Len(rows) \in Nat
  BY <1>1
<1>4. ops \in Seq(Operation) /\ (rows # <<>> => ops # <<>>)
  <2>1. \A i \in 1..Len(rows) : rows[i].op \in Operation
    <3>1. \A r \in Row : r.op \in Operation
      BY DEF Row
    <3>2. \A i \in 1..Len(rows) : rows[i] \in Row
      BY <1>1, <1>3
    <3> QED
      BY <3>1, <3>2
  <2>2. ops \in [1..Len(rows) -> Operation]
    BY <1>3, <2>1
  <2>3. ops \in Seq(Operation) /\ Len(ops) = Len(rows)
    BY <1>3, <2>2
  <2>4. rows # <<>> => Len(rows) # 0
    BY <1>1
  <2>5. Len(ops) # 0 => ops # <<>>
    OBVIOUS
  <2> QED
    BY <2>3, <2>4, <2>5
<1>5. marked \subseteq Operation
  BY SimpleTypes DEF TypeOK
<1>6. todo'[w] = ops /\ conflicts'[w] = seen
  BY <1>2 DEF TypeOK
<1>7. Hand(w)' = Range(todo'[w]) \cup conflicts'[w]
  BY DEF Hand
<1>8. \A o \in Range(ops) : \E r \in Range(rows) : r.op = o
  BY DEF Range
<1>9. \A o \in Hand(w)' : \E r \in Rows : r.op = o /\ r.user = activeUser[w]
  <2> HIDE DEF ops
  <2> QED
    BY <1>1, <1>6, <1>7, <1>8
<1>10. \A v \in Side \ {w} : /\ todo'[v] = todo[v] /\ conflicts'[v] = conflicts[v]
                             /\ step'[v] = step[v]
  BY <1>2 DEF TypeOK
<1>11. \A v \in Side \ {w} : Hand(v)' = Hand(v)
  BY <1>10, SameHand
<1>12. todo' \in [Side -> Seq(Operation)] /\ conflicts' \in [Side -> SUBSET Operation]
  <2> HIDE DEF ops, seen
  <2>1. seen \subseteq Operation
    BY <1>5 DEF seen
  <2> QED
    BY <1>2, <1>4, <2>1 DEF TypeOK
<1>13. /\ step' \in [Side -> {"off", "login", "me", "rows", "send", "end"}]
       /\ step'[w] = IF rows = <<>> THEN "end" ELSE "send"
  BY <1>2 DEF TypeOK
<1> QED
  BY <1>2, <1>4, <1>6, <1>9, <1>10, <1>11, <1>12, <1>13

\* What a repository reads is true of its user's rows, and queued.
LEMMA ReadingInv ==
  ASSUME IInv, NEW w \in Side, ReadRows(w), UNCHANGED <<queue, marked, sending, shown>>
  PROVE  OnceInv' /\ HandInv' /\ ConflictInv'
<1>1. Rows' = Rows /\ Queued' = Queued
  BY SameRows
<1>2. /\ \A v \in Side \ {w} : conflicts'[v] = conflicts[v] /\ Hand(v)' = Hand(v)
      /\ conflicts'[w] \subseteq marked
      /\ \A o \in Hand(w)' : \E r \in Rows : r.op = o /\ r.user = activeUser[w]
      /\ activeUser' = activeUser
  BY Reading DEF IInv
<1>3. Hand(w)' \subseteq Queued
  BY <1>2 DEF Queued
<1>4. OnceInv'
  <2> SUFFICES ASSUME NEW o \in Operation, sending[o] \in {"new", "sent"}
               PROVE  o \notin Queued \cup shown /\ \A v \in Side : o \notin Hand(v)'
    BY <1>1 DEF OnceInv
  <2> QED
    BY <1>2, <1>3 DEF IInv, OnceInv
<1>5. HandInv'
  <2> SUFFICES ASSUME NEW v \in Side, NEW r \in Rows, r.op \in Hand(v)'
               PROVE  r.user = activeUser[v]
    BY <1>1, <1>2 DEF HandInv
  <2>1. CASE v = w
    <3>1. PICK s \in Rows : s.op = r.op /\ s.user = activeUser[w]
      BY <1>2, <2>1
    <3> QED
      BY <2>1, <3>1, OneRow DEF IInv
  <2>2. CASE v # w
    BY <1>2, <2>2 DEF IInv, HandInv
  <2> QED
    BY <2>1, <2>2
<1>6. ConflictInv'
  BY <1>1, <1>2 DEF IInv, ConflictInv, Side
<1> QED
  BY <1>4, <1>5, <1>6

LEMMA RefreshInv ==
  ASSUME IInv, Refresh
  PROVE  IInv'
<1>1. /\ user # Nobody
      /\ step["screen"] \in {"off", "send", "end"}
      /\ ReadRows("screen") /\ CancelSend
      /\ loading' = TRUE
      /\ UNCHANGED <<saved, queue, marked, user, shown, submissions, work, bounds, left,
                     missed>>
  BY DEF Refresh
<1>2. "screen" \in Side /\ "worker" \in Side \ {"screen"}
  BY DEF Side
<1>3. /\ todo' \in [Side -> Seq(Operation)] /\ conflicts' \in [Side -> SUBSET Operation]
      /\ step' \in [Side -> {"off", "login", "me", "rows", "send", "end"}]
      /\ todo'["worker"] = todo["worker"] /\ conflicts'["worker"] = conflicts["worker"]
      /\ step'["worker"] = step["worker"]
      /\ step'["screen"] \in {"send", "end"}
      /\ step'["screen"] = "send" => todo'["screen"] # <<>>
      /\ UNCHANGED <<token, activeUser>>
  BY <1>1, <1>2, Reading DEF IInv
<1>4. Rows' = Rows /\ Queued' = Queued
  BY <1>1, SameRows
<1>5. logins' = logins /\ revoked' = revoked /\ posted' \in [Operation -> User \cup {Nobody}]
  BY <1>1, CancelPosts DEF IInv, Promise!Posting
<1>6. TypeOK'
  <2>1. /\ step'["worker"] # "off" => work = "running"
        /\ \A v \in Side : step'[v] = "send" => todo'[v] # <<>>
    BY <1>3 DEF IInv, TypeOK, Side
  <2> QED
    BY <1>1, <1>3, <1>4, <1>5, <2>1 DEF IInv, TypeOK, saved, submissions, bounds
<1>7. SessionInv' /\ SentInv' /\ IdleInv'
  BY <1>1, <1>3 DEF IInv, SessionInv, SentInv, IdleInv, saved, submissions, Side
<1>8. OnceInv' /\ HandInv' /\ ConflictInv'
  BY <1>1, <1>2, ReadingInv DEF submissions
<1>9. WorkInv'
  <2>1. WorkerUser' = WorkerUser /\ Owner(savedToken)' = Owner(savedToken)
    BY <1>1, <1>3, <1>5 DEF WorkerUser, Owner, saved
  <2> QED
    BY <1>1, <1>4, <2>1, WorkKept DEF IInv, TypeOK, saved, submissions
<1>10. LostOnlyByLeaving'
  BY <1>1, <1>4, LostKept DEF IInv, submissions
<1> QED
  BY <1>6, <1>7, <1>8, <1>9, <1>10 DEF IInv

LEMMA WorkerReadsRowsInv ==
  ASSUME IInv, WorkerReadsRows
  PROVE  IInv'
<1>1. /\ step["worker"] = "rows" /\ ReadRows("worker")
      /\ UNCHANGED <<server, saved, queue, marked, screen, submissions, work, bounds, left,
                     missed>>
  BY DEF WorkerReadsRows
<1>2. "worker" \in Side /\ "screen" \in Side \ {"worker"}
  BY DEF Side
<1>3. /\ todo' \in [Side -> Seq(Operation)] /\ conflicts' \in [Side -> SUBSET Operation]
      /\ step' \in [Side -> {"off", "login", "me", "rows", "send", "end"}]
      /\ todo'["screen"] = todo["screen"] /\ conflicts'["screen"] = conflicts["screen"]
      /\ step'["screen"] = step["screen"]
      /\ step'["worker"] \in {"send", "end"}
      /\ step'["worker"] = "send" => todo'["worker"] # <<>>
      /\ UNCHANGED <<token, activeUser>>
  BY <1>1, <1>2, Reading DEF IInv
<1>4. Rows' = Rows /\ Queued' = Queued
  BY <1>1, SameRows
<1>5. TypeOK'
  <2>1. /\ work = "running"
        /\ \A v \in Side : step'[v] = "send" => todo'[v] # <<>>
    BY <1>1, <1>3 DEF IInv, TypeOK, Side
  <2> QED
    BY <1>1, <1>3, <1>4, <2>1 DEF IInv, TypeOK, server, saved, screen, submissions, bounds
<1>6. SessionInv' /\ SentInv' /\ IdleInv'
  BY <1>1, <1>3 DEF IInv, SessionInv, SentInv, IdleInv, saved, screen, submissions, Side
<1>7. OnceInv' /\ HandInv' /\ ConflictInv'
  BY <1>1, <1>2, ReadingInv DEF submissions, screen
<1>8. WorkInv'
  <2>1. WorkerUser' = WorkerUser /\ Owner(savedToken)' = Owner(savedToken)
    BY <1>1, <1>3 DEF WorkerUser, Owner, saved, server
  <2> QED
    BY <1>1, <1>4, <2>1, WorkKept DEF IInv, TypeOK, saved, submissions
<1>9. LostOnlyByLeaving'
  BY <1>1, <1>4, LostKept DEF IInv, submissions
<1> QED
  BY <1>5, <1>6, <1>7, <1>8, <1>9 DEF IInv

LEMMA RefreshEndsInv ==
  ASSUME IInv, RefreshEnds
  PROVE  IInv'
<1>1. /\ step["screen"] = "end"
      /\ shown' = conflicts["screen"]
      /\ loading' = FALSE
      /\ step' = [step EXCEPT !["screen"] = "off"]
      /\ todo' = [todo EXCEPT !["screen"] = <<>>]
      /\ conflicts' = [conflicts EXCEPT !["screen"] = {}]
      /\ UNCHANGED <<server, saved, queue, marked, token, activeUser, user, submissions, work,
                     bounds, left, missed>>
  BY DEF RefreshEnds, Idle
<1>2. Rows' = Rows /\ Queued' = Queued
  BY <1>1, SameRows
<1>3. TypeOK'
  <2>1. /\ step' \in [Side -> {"off", "login", "me", "rows", "send", "end"}]
        /\ todo' \in [Side -> Seq(Operation)] /\ conflicts' \in [Side -> SUBSET Operation]
        /\ step'["worker"] # "off" => work = "running"
        /\ \A w \in Side : step'[w] = "send" => todo'[w] # <<>>
        /\ shown' \subseteq Operation
    BY <1>1 DEF IInv, TypeOK, Side
  <2> QED
    BY <1>1, <1>2, <2>1 DEF IInv, TypeOK, server, saved, submissions, bounds
<1>4. SessionInv' /\ SentInv' /\ IdleInv'
  BY <1>1 DEF IInv, TypeOK, SessionInv, SentInv, IdleInv, saved, submissions, Side
<1>5. Hand("screen")' = {} /\ Hand("worker")' = Hand("worker")
  BY <1>1, EmptyHand, SameHand DEF IInv, TypeOK, Side
<1>6. OnceInv' /\ HandInv' /\ ConflictInv'
  <2>1. \A w \in Side : /\ Hand(w)' \subseteq Hand(w)
                        /\ Hand(w)' = {} \/ activeUser'[w] = activeUser[w]
                        /\ (conflicts'[w] \ conflicts[w]) \cap Queued' \subseteq marked'
    BY <1>1, <1>5 DEF IInv, TypeOK, Side
  <2> QED
    BY <1>1, <1>2, <2>1, ReadsKept DEF IInv, submissions
<1>7. WorkInv'
  <2>1. WorkerUser' = WorkerUser /\ Owner(savedToken)' = Owner(savedToken)
    BY <1>1 DEF WorkerUser, Owner, saved, server, IInv, TypeOK, Side
  <2> QED
    BY <1>1, <1>2, <2>1, WorkKept DEF IInv, TypeOK, saved, submissions
<1>8. LostOnlyByLeaving'
  BY <1>1, <1>2, LostKept DEF IInv, submissions
<1> QED
  BY <1>3, <1>4, <1>6, <1>7, <1>8 DEF IInv

\* A worker starts with what is saved, so for the user of the saved session.
LEMMA DoWorkInv ==
  ASSUME IInv, DoWork
  PROVE  IInv'
<1>1. /\ work = "enqueued"
      /\ token' = [w \in Side |-> IF w \in {"worker"} THEN savedToken ELSE token[w]]
      /\ activeUser' = [w \in Side |-> IF w \in {"worker"} THEN savedUser ELSE activeUser[w]]
      /\ todo' = [w \in Side |-> IF w \in {"worker"} THEN <<>> ELSE todo[w]]
      /\ conflicts' = [w \in Side |-> IF w \in {"worker"} THEN {} ELSE conflicts[w]]
      /\ work' = IF savedToken = 0 THEN "finishing" ELSE "running"
      /\ step' = [step EXCEPT !["worker"] = IF savedToken = 0 THEN "off" ELSE "me"]
      /\ missed' = IF savedToken = 0 THEN missed \cup Queued ELSE missed
      /\ UNCHANGED <<server, saved, queue, marked, screen, submissions, bounds, left>>
  BY DEF DoWork, NewRepositories
<1>2. Rows' = Rows /\ Queued' = Queued
  BY <1>1, SameRows
<1>3. TypeOK'
  <2>1. /\ step' \in [Side -> {"off", "login", "me", "rows", "send", "end"}]
        /\ todo' \in [Side -> Seq(Operation)] /\ conflicts' \in [Side -> SUBSET Operation]
        /\ step'["worker"] # "off" => work' = "running"
        /\ \A w \in Side : step'[w] = "send" => todo'[w] # <<>>
    BY <1>1 DEF IInv, TypeOK, Side
  <2>2. /\ token' \in [Side -> 0..Len(logins)] /\ activeUser' \in [Side -> User \cup {Nobody}]
    BY <1>1 DEF IInv, TypeOK, Side
  <2>3. missed' \subseteq Operation /\ work' \in {"none", "enqueued", "running", "finishing"}
    BY <1>1, SimpleTypes DEF IInv, TypeOK
  <2> QED
    BY <1>1, <1>2, <2>1, <2>2, <2>3 DEF IInv, TypeOK, server, saved, screen, submissions, bounds
<1>4. SessionInv' /\ SentInv' /\ IdleInv'
  BY <1>1 DEF IInv, TypeOK, SessionInv, SentInv, IdleInv, saved, screen, submissions, Side
<1>5. Hand("worker")' = {} /\ Hand("screen")' = Hand("screen")
  BY <1>1, EmptyHand, SameHand DEF Side
<1>6. OnceInv' /\ HandInv' /\ ConflictInv'
  <2>1. \A w \in Side : /\ Hand(w)' \subseteq Hand(w)
                        /\ Hand(w)' = {} \/ activeUser'[w] = activeUser[w]
                        /\ (conflicts'[w] \ conflicts[w]) \cap Queued' \subseteq marked'
    BY <1>1, <1>5 DEF Side
  <2> QED
    BY <1>1, <1>2, <2>1, ReadsKept DEF IInv, screen, submissions
<1>7. WorkInv'
  <2> SUFFICES ASSUME NEW r \in Rows, r.op \notin missed'
               PROVE  \/ savedToken # 0 /\ Owner(savedToken) # r.user
                      \/ work' = "running" /\ WorkerUser' = r.user
    BY <1>1, <1>2 DEF WorkInv, saved, server, Owner
  <2>1. savedToken # 0
    BY <1>1 DEF Queued
  <2>2. step'["worker"] = "me" /\ token'["worker"] = savedToken /\ logins' = logins
    BY <1>1, <2>1 DEF IInv, TypeOK, Side, server
  <2>3. WorkerUser' = Owner(savedToken)
    BY <2>2 DEF WorkerUser, Owner
  <2> QED
    BY <1>1, <2>1, <2>3
<1>8. LostOnlyByLeaving'
  BY <1>1, <1>2, LostKept DEF IInv, submissions
<1> QED
  BY <1>3, <1>4, <1>6, <1>7, <1>8 DEF IInv

LEMMA WorkFinishedInv ==
  ASSUME IInv, WorkFinished
  PROVE  IInv'
<1>1. /\ work = "finishing" /\ work' = "none"
      /\ UNCHANGED <<server, saved, queue, marked, repositories, screen, submissions, bounds,
                     left, missed>>
  BY DEF WorkFinished
<1>2. Rows' = Rows /\ Queued' = Queued /\ \A w : Hand(w)' = Hand(w)
  BY <1>1, SameRows, SameHand DEF repositories
<1>3. TypeOK'
  BY <1>1, <1>2 DEF IInv, TypeOK, server, saved, repositories, screen, submissions, bounds
<1>4. SessionInv' /\ SentInv' /\ IdleInv'
  BY <1>1 DEF IInv, SessionInv, SentInv, IdleInv, saved, repositories, screen, submissions
<1>5. OnceInv' /\ HandInv' /\ ConflictInv'
  BY <1>1, <1>2, ReadsKept DEF IInv, repositories, screen, submissions
<1>6. WorkInv' /\ LostOnlyByLeaving'
  BY <1>1, <1>2, WorkKept, LostKept DEF IInv, TypeOK, Owner, server, saved, submissions
<1> QED
  BY <1>3, <1>4, <1>5, <1>6 DEF IInv

\* If the conflicts are rows of the queue and no fewer than the rows of the user, every row
\* of the user is a conflict, so none of them waits.
LEMMA NothingUnresolved ==
  ASSUME IInv, step["worker"] = "end", conflicts["worker"] \subseteq Queued,
         ~(UnresolvedNetworkItems(activeUser["worker"], conflicts["worker"]) > 0),
         NEW r \in Rows, r.user = activeUser["worker"]
  PROVE  r.op \in marked
<1> DEFINE u == activeUser["worker"]
           c == conflicts["worker"]
           mine == {s \in Rows : s.user = u}
           rows == RowsOf(u)
           ops == {s.op : s \in Range(rows)}
<1>1. queue \in Seq(Row) /\ Once(queue) /\ Cardinality(Queued) = Len(queue) /\ IsFiniteSet(Queued)
  BY OnceCounts DEF IInv, TypeOK, Rows, Queued
<1>2. rows \in Seq(Row) /\ Range(rows) = mine /\ Once(rows)
  BY <1>1, SelectRows DEF RowsOf
<1> HIDE DEF rows
<1>3. IsFiniteSet(ops) /\ Cardinality(ops) = Len(rows)
  BY <1>2, OnceCounts
<1>4. c \subseteq ops
  <2> SUFFICES ASSUME NEW o \in c
               PROVE  o \in ops
    OBVIOUS
  <2>1. PICK s \in Rows : s.op = o
    BY DEF Queued
  <2>2. s.user = u
    BY <2>1 DEF IInv, HandInv, Hand, Side
  <2> QED
    BY <1>2, <2>1, <2>2
<1>5. /\ IsFiniteSet(c) /\ Cardinality(c) <= Cardinality(ops)
      /\ Cardinality(ops) = Cardinality(c) => ops = c
  BY <1>3, <1>4, FS_Subset
<1>6. Cardinality(c) \in Nat /\ Cardinality(ops) \in Nat
  BY <1>3, <1>5, FS_CardinalityType
<1>7. ~(Len(rows) - Cardinality(c) > 0)
  BY DEF UnresolvedNetworkItems, rows
<1>8. ops = c
  BY <1>3, <1>5, <1>6, <1>7
<1>9. r.op \in c
  BY <1>2, <1>8
<1> QED
  BY <1>9 DEF IInv, ConflictInv, Queued

LEMMA WorkEndsInv ==
  ASSUME IInv, WorkEnds
  PROVE  IInv'
<1> DEFINE u == activeUser["worker"]
           c == conflicts["worker"]
<1>1. /\ step["worker"] = "end"
      /\ work' = IF UnresolvedNetworkItems(u, c) > 0 THEN "enqueued" ELSE "finishing"
      /\ step' = [step EXCEPT !["worker"] = "off"]
      /\ todo' = [todo EXCEPT !["worker"] = <<>>]
      /\ conflicts' = [conflicts EXCEPT !["worker"] = {}]
      /\ token' = [token EXCEPT !["worker"] = 0]
      /\ activeUser' = [activeUser EXCEPT !["worker"] = Nobody]
      /\ missed' = IF c \subseteq Queued THEN missed ELSE missed \cup Queued
      /\ UNCHANGED <<server, saved, queue, marked, screen, submissions, bounds, left>>
  BY DEF WorkEnds, Idle, WorkerGone
<1>2. Rows' = Rows /\ Queued' = Queued
  BY <1>1, SameRows
<1>3. TypeOK'
  <2>1. /\ step' \in [Side -> {"off", "login", "me", "rows", "send", "end"}]
        /\ todo' \in [Side -> Seq(Operation)] /\ conflicts' \in [Side -> SUBSET Operation]
        /\ step'["worker"] # "off" => work' = "running"
        /\ \A w \in Side : step'[w] = "send" => todo'[w] # <<>>
    BY <1>1 DEF IInv, TypeOK, Side
  <2>2. /\ token' \in [Side -> 0..Len(logins)] /\ activeUser' \in [Side -> User \cup {Nobody}]
    <3>1. /\ token \in [Side -> 0..Len(logins)] /\ activeUser \in [Side -> User \cup {Nobody}]
          /\ 0 \in 0..Len(logins)
      BY SimpleTypes DEF IInv, TypeOK
    <3> QED
      BY <1>1, <3>1
  <2>3. missed' \subseteq Operation /\ work' \in {"none", "enqueued", "running", "finishing"}
    BY <1>1, SimpleTypes DEF IInv, TypeOK
  <2> QED
    BY <1>1, <1>2, <2>1, <2>2, <2>3 DEF IInv, TypeOK, server, saved, screen, submissions, bounds
<1>4. SessionInv' /\ SentInv' /\ IdleInv'
  BY <1>1 DEF IInv, TypeOK, SessionInv, SentInv, IdleInv, saved, screen, submissions, Side
<1>5. Hand("worker")' = {} /\ Hand("screen")' = Hand("screen")
  BY <1>1, EmptyHand, SameHand DEF IInv, TypeOK, Side
<1>6. OnceInv' /\ HandInv' /\ ConflictInv'
  <2>1. \A w \in Side : /\ Hand(w)' \subseteq Hand(w)
                        /\ Hand(w)' = {} \/ activeUser'[w] = activeUser[w]
                        /\ (conflicts'[w] \ conflicts[w]) \cap Queued' \subseteq marked'
    BY <1>1, <1>5 DEF IInv, TypeOK, Side
  <2> QED
    BY <1>1, <1>2, <2>1, ReadsKept DEF IInv, screen, submissions
<1>7. WorkInv'
  <2> SUFFICES ASSUME NEW r \in Rows, sending[r.op] = "queued", r.op \notin marked \cup missed',
                      work' = "finishing"
               PROVE  savedToken # 0 /\ Owner(savedToken) # r.user
    BY <1>1, <1>2 DEF WorkInv, saved, server, submissions, Owner
  <2>1. c \subseteq Queued /\ r.op \notin missed
    BY <1>1 DEF Queued
  <2>2. ~(UnresolvedNetworkItems(u, c) > 0)
    BY <1>1
  <2>3. r.user # u
    BY <1>1, <2>1, <2>2, NothingUnresolved
  <2>4. work = "running" /\ WorkerUser = u
    BY <1>1 DEF IInv, TypeOK, WorkerUser
  <2> QED
    BY <2>1, <2>3, <2>4 DEF IInv, WorkInv
<1>8. LostOnlyByLeaving'
  BY <1>1, <1>2, LostKept DEF IInv, submissions
<1> QED
  BY <1>3, <1>4, <1>6, <1>7, <1>8 DEF IInv

\* Sending a row: the first of those in hand.
LEMMA FirstInHand ==
  ASSUME TypeOK, NEW w \in Side, step[w] = "send"
  PROVE  /\ Head(todo[w]) \in Operation /\ Head(todo[w]) \in Hand(w)
         /\ Tail(todo[w]) \in Seq(Operation)
         /\ Range(Tail(todo[w])) \subseteq Hand(w)
         /\ Len(todo[w]) # 1 => Tail(todo[w]) # <<>>
<1> DEFINE s == todo[w]
<1>1. s \in Seq(Operation) /\ s # <<>>
  BY DEF TypeOK
<1> HIDE DEF s
<1>2. /\ Len(s) \in Nat \ {0} /\ DOMAIN s = 1..Len(s) /\ Head(s) = s[1] /\ s[1] \in Operation
      /\ Tail(s) \in Seq(Operation) /\ Len(Tail(s)) = Len(s) - 1
      /\ DOMAIN Tail(s) = 1..(Len(s) - 1)
      /\ \A i \in 1..(Len(s) - 1) : Tail(s)[i] = s[i + 1] /\ i + 1 \in 1..Len(s)
  BY <1>1
<1>3. s[1] \in Range(s) /\ Range(Tail(s)) \subseteq Range(s)
  BY <1>2 DEF Range
<1>4. Len(s) # 1 => Tail(s) # <<>>
  <2> SUFFICES ASSUME Len(s) # 1, Tail(s) = <<>>
               PROVE  FALSE
    OBVIOUS
  <2>1. Len(<<>>) = 0
    OBVIOUS
  <2>2. Len(Tail(s)) = 0
    BY <2>1, Zenon
  <2> QED
    BY <1>2, <2>2
<1> QED
  BY <1>1, <1>2, <1>3, <1>4 DEF Hand, s

\* One answer, or none: what is in hand gets less, a row goes only with its answer, and
\* the worker ends only to be tried again.
LEMMA SynchroniseEffect ==
  ASSUME IInv, NEW w \in Side, Synchronise(w)
  PROVE  LET o == Head(todo[w])
         IN  /\ queue' \in Seq(Row) /\ Cardinality(Queued') = Len(queue')
             /\ Rows' \subseteq Rows /\ marked' \subseteq Queued'
             /\ marked \cap Queued' \subseteq marked'
             /\ todo'[w] \in Seq(Operation) /\ conflicts'[w] \in SUBSET Operation
             /\ step'[w] \in {"send", "end", "off"}
             /\ step'[w] = "send" => todo'[w] # <<>>
             /\ step'[w] = "off" => todo'[w] = <<>> /\ conflicts'[w] = {}
             /\ Hand(w)' \subseteq Hand(w)
             /\ (conflicts'[w] \ conflicts[w]) \cap Queued' \subseteq marked'
             /\ \A v \in Side \ {w} : /\ todo'[v] = todo[v] /\ conflicts'[v] = conflicts[v]
                                      /\ step'[v] = step[v]
             /\ todo' \in [Side -> Seq(Operation)] /\ conflicts' \in [Side -> SUBSET Operation]
             /\ step' \in [Side -> {"off", "login", "me", "rows", "send", "end"}]
<1> DEFINE o == Head(todo[w])
           t == token[w]
           ops == todo[w]
           cs == conflicts[w]
<1>1. /\ o \in Operation /\ o \in Hand(w)
      /\ Tail(ops) \in Seq(Operation) /\ Range(Tail(ops)) \subseteq Hand(w)
      /\ Len(ops) # 1 => Tail(ops) # <<>>
  BY FirstInHand DEF Synchronise, IInv
<1>2. /\ todo \in [Side -> Seq(Operation)] /\ conflicts \in [Side -> SUBSET Operation]
      /\ step \in [Side -> {"off", "login", "me", "rows", "send", "end"}]
      /\ queue \in Seq(Row) /\ Cardinality(Queued) = Len(queue) /\ marked \subseteq Queued
      /\ step[w] = "send" /\ <<>> \in Seq(Operation)
  BY DEF IInv, TypeOK, Synchronise
<1>3. /\ Hand(w) = Range(ops) \cup cs /\ Hand(w)' = Range(todo'[w]) \cup conflicts'[w]
      /\ Range(<<>>) = {}
  BY DEF Hand, Range
<1> HIDE DEF o, ops, cs
<1>4. CASE /\ RemovePending(o)
           /\ conflicts' = [conflicts EXCEPT ![w] = cs \ {o}]
           /\ Proceed(w)
  <2>1. /\ todo' = [todo EXCEPT ![w] = Tail(ops)]
        /\ step' = [step EXCEPT ![w] = IF Len(ops) = 1 THEN "end" ELSE "send"]
    BY <1>4 DEF Proceed, ops
  <2>2. todo'[w] = Tail(ops) /\ conflicts'[w] = cs \ {o}
    BY <1>2, <1>4, <2>1
  <2>3. /\ queue' \in Seq(Row) /\ Cardinality(Queued') = Len(queue')
        /\ Rows' \subseteq Rows /\ Queued' = Queued \ {o} /\ marked' = marked \ {o}
    BY <1>4, Removed DEF IInv
  <2>4. Hand(w)' \subseteq Hand(w)
    BY <1>1, <1>3, <2>2
  <2>5. /\ todo' \in [Side -> Seq(Operation)] /\ conflicts' \in [Side -> SUBSET Operation]
        /\ step' \in [Side -> {"off", "login", "me", "rows", "send", "end"}]
    BY <1>1, <1>2, <1>4, <2>1 DEF cs
  <2> QED
    BY <1>1, <1>2, <1>4, <2>1, <2>2, <2>3, <2>4, <2>5 DEF cs
<1>5. CASE /\ MarkPending(o)
           /\ conflicts' = [conflicts EXCEPT ![w] = cs \cup {o}]
           /\ Proceed(w)
  <2>1. /\ todo' = [todo EXCEPT ![w] = Tail(ops)]
        /\ step' = [step EXCEPT ![w] = IF Len(ops) = 1 THEN "end" ELSE "send"]
    BY <1>5 DEF Proceed, ops
  <2>2. todo'[w] = Tail(ops) /\ conflicts'[w] = cs \cup {o}
    BY <1>2, <1>5, <2>1
  <2>3. /\ Rows' = Rows /\ Queued' = Queued /\ queue' = queue
        /\ marked' = marked \cup ({o} \cap Queued)
    BY <1>5, SameRows DEF MarkPending
  <2>4. Hand(w)' \subseteq Hand(w)
    BY <1>1, <1>3, <2>2
  <2>5. /\ todo' \in [Side -> Seq(Operation)] /\ conflicts' \in [Side -> SUBSET Operation]
        /\ step' \in [Side -> {"off", "login", "me", "rows", "send", "end"}]
    BY <1>1, <1>2, <1>5, <2>1 DEF cs
  <2> QED
    BY <1>1, <1>2, <1>5, <2>1, <2>2, <2>3, <2>4, <2>5 DEF cs
<1>6. CASE Unauthorized(w) /\ UNCHANGED <<queue, marked>>
  <2>1. /\ step' = [step EXCEPT ![w] = "off"]
        /\ todo' = [todo EXCEPT ![w] = <<>>]
        /\ conflicts' = [conflicts EXCEPT ![w] = {}]
    BY <1>6 DEF Unauthorized, Idle
  <2>2. Rows' = Rows /\ Queued' = Queued
    BY <1>6, SameRows
  <2>3. todo'[w] = <<>> /\ conflicts'[w] = {} /\ Hand(w)' = {}
    BY <1>2, <1>3, <2>1
  <2> QED
    BY <1>2, <1>6, <2>1, <2>2, <2>3
<1>7. CASE /\ todo' = [todo EXCEPT ![w] = <<>>]
           /\ step' = [step EXCEPT ![w] = "end"]
           /\ UNCHANGED <<queue, marked, conflicts>>
  <2>1. Rows' = Rows /\ Queued' = Queued
    BY <1>7, SameRows
  <2>2. todo'[w] = <<>> /\ Hand(w)' \subseteq Hand(w)
    BY <1>2, <1>3, <1>7 DEF cs
  <2> QED
    BY <1>2, <1>7, <2>1, <2>2
<1>8. \/ /\ RemovePending(o)
         /\ conflicts' = [conflicts EXCEPT ![w] = cs \ {o}]
         /\ Proceed(w)
      \/ /\ MarkPending(o)
         /\ conflicts' = [conflicts EXCEPT ![w] = cs \cup {o}]
         /\ Proceed(w)
      \/ Unauthorized(w) /\ UNCHANGED <<queue, marked>>
      \/ /\ todo' = [todo EXCEPT ![w] = <<>>]
         /\ step' = [step EXCEPT ![w] = "end"]
         /\ UNCHANGED <<queue, marked, conflicts>>
  BY DEF Synchronise, o, cs
<1> QED
  BY <1>4, <1>5, <1>6, <1>7, <1>8 DEF o

LEMMA SynchroniseInv ==
  ASSUME IInv, NEW w \in Side, Synchronise(w)
  PROVE  IInv'
<1>1. /\ step[w] = "send"
      /\ UNCHANGED <<saved, user, shown, submissions, outside, left, missed>>
  BY DEF Synchronise
<1>2. /\ queue' \in Seq(Row) /\ Cardinality(Queued') = Len(queue')
      /\ Rows' \subseteq Rows /\ marked' \subseteq Queued'
      /\ marked \cap Queued' \subseteq marked'
      /\ step'[w] \in {"send", "end", "off"}
      /\ step'[w] = "send" => todo'[w] # <<>>
      /\ step'[w] = "off" => todo'[w] = <<>> /\ conflicts'[w] = {}
      /\ Hand(w)' \subseteq Hand(w)
      /\ (conflicts'[w] \ conflicts[w]) \cap Queued' \subseteq marked'
      /\ \A v \in Side \ {w} : /\ todo'[v] = todo[v] /\ conflicts'[v] = conflicts[v]
                               /\ step'[v] = step[v]
      /\ todo' \in [Side -> Seq(Operation)] /\ conflicts' \in [Side -> SUBSET Operation]
      /\ step' \in [Side -> {"off", "login", "me", "rows", "send", "end"}]
  BY SynchroniseEffect
<1>3. \A v \in Side \ {w} : Hand(v)' = Hand(v)
  BY <1>2, SameHand
<1>4. \/ UNCHANGED <<token, activeUser, work>>
      \/ /\ w = "screen" /\ UNCHANGED <<token, activeUser, work>>
      \/ /\ w = "worker" /\ work' = "enqueued" /\ step'[w] = "off"
         /\ token' = [token EXCEPT !["worker"] = 0]
         /\ activeUser' = [activeUser EXCEPT !["worker"] = Nobody]
  <2>1. Unauthorized(w) => step'[w] = "off"
    BY DEF Unauthorized, Idle, IInv, TypeOK
  <2> QED
    BY <2>1 DEF Synchronise, Proceed, Unauthorized, WorkerGone, Side
<1>5. loading' = loading \/ loading' = FALSE
  BY DEF Synchronise, Proceed, Unauthorized
<1>6. failures' \in 0..MaxFailures
  <2>1. failures' = failures \/ (failures < MaxFailures /\ failures' = failures + 1)
    BY DEF Synchronise, GiveUp
  <2> QED
    BY <2>1, QueueAssumption DEF IInv, TypeOK
<1>7. logins' = logins /\ revoked' = revoked /\ posted' \in [Operation -> User \cup {Nobody}]
  <2>1. \/ Unanswered(Head(todo[w]), token[w]) \/ Rejected(Head(todo[w]), token[w])
        \/ Denied(token[w])
    BY Zenon DEF Synchronise, GiveUp, Unanswered
  <2>2. Head(todo[w]) \in Operation
    BY <1>1, FirstInHand DEF IInv
  <2> QED
    BY <2>1, <2>2, ServerPosts DEF IInv, Promise!Posting
<1>8. TypeOK'
  <2>1. /\ token' \in [Side -> 0..Len(logins)] /\ activeUser' \in [Side -> User \cup {Nobody}]
        /\ work' \in {"none", "enqueued", "running", "finishing"}
    <3>1. /\ token \in [Side -> 0..Len(logins)] /\ activeUser \in [Side -> User \cup {Nobody}]
          /\ 0 \in 0..Len(logins) /\ work \in {"none", "enqueued", "running", "finishing"}
      BY SimpleTypes DEF IInv, TypeOK
    <3> QED
      BY <1>4, <3>1
  <2>2. step'["worker"] # "off" => work' = "running"
    BY <1>1, <1>2, <1>4 DEF IInv, TypeOK, Side
  <2>3. \A v \in Side : step'[v] = "send" => todo'[v] # <<>>
    BY <1>2 DEF IInv, TypeOK
  <2>4. loading' \in BOOLEAN
    BY <1>5, Zenon DEF IInv, TypeOK
  <2> QED
    BY <1>1, <1>2, <1>6, <1>7, <2>1, <2>2, <2>3, <2>4 DEF IInv, TypeOK, saved, submissions
<1>9. activeUser'["screen"] = activeUser["screen"]
  BY <1>4 DEF IInv, TypeOK, Side
<1>10. SessionInv' /\ SentInv' /\ IdleInv'
  <2>1. SessionInv'
    BY <1>1, <1>2, <1>9 DEF IInv, SessionInv, saved, Side
  <2>2. SentInv'
    BY <1>1 DEF IInv, SentInv, submissions
  <2>3. IdleInv'
    BY <1>2 DEF IInv, IdleInv
  <2> QED
    BY <2>1, <2>2, <2>3
<1>11. OnceInv' /\ HandInv' /\ ConflictInv'
  <2>1. Hand(w)' = {} \/ activeUser'[w] = activeUser[w]
    BY <1>2, <1>4, EmptyHand
  <2>2. \A v \in Side : /\ Hand(v)' \subseteq Hand(v)
                        /\ Hand(v)' = {} \/ activeUser'[v] = activeUser[v]
                        /\ (conflicts'[v] \ conflicts[v]) \cap Queued' \subseteq marked'
    BY <1>2, <1>3, <1>4, <2>1 DEF IInv, TypeOK
  <2> QED
    BY <1>1, <1>2, <2>2, ReadsKept DEF IInv, submissions
<1>12. WorkInv'
  <2>1. Owner(savedToken)' = Owner(savedToken) /\ savedToken' = savedToken
    BY <1>1, <1>7 DEF Owner, saved
  <2>2. CASE UNCHANGED <<token, activeUser, work>>
    <3>1. WorkerUser' = WorkerUser
      BY <1>1, <1>2, <1>7, <2>2 DEF WorkerUser, Owner, Side
    <3> QED
      BY <1>1, <1>2, <2>1, <2>2, <3>1, WorkKept DEF IInv, TypeOK, submissions
  <2>3. CASE w = "worker" /\ work' = "enqueued"
    BY <2>3 DEF WorkInv
  <2> QED
    BY <1>4, <2>2, <2>3
<1>13. LostOnlyByLeaving'
  BY <1>1, <1>2, LostKept DEF IInv, submissions
<1> QED
  BY <1>8, <1>10, <1>11, <1>12, <1>13 DEF IInv

\* A step that changes nothing.
LEMMA StutterInv ==
  ASSUME IInv, UNCHANGED vars
  PROVE  IInv'
<1>1. /\ UNCHANGED <<posted, logins, revoked, savedToken, savedUser, queue, marked>>
      /\ UNCHANGED <<token, activeUser, step, todo, conflicts, user, loading, shown>>
      /\ UNCHANGED <<sending, sentWith, work, failures, outside, left, missed>>
  BY DEF vars, server, saved, repositories, screen, submissions, bounds
<1>2. Rows' = Rows /\ Queued' = Queued /\ \A w : Hand(w)' = Hand(w)
  BY <1>1, SameRows, SameHand
<1>3. TypeOK'
  BY <1>1, <1>2 DEF IInv, TypeOK
<1>4. SessionInv' /\ SentInv' /\ IdleInv'
  BY <1>1 DEF IInv, SessionInv, SentInv, IdleInv
<1>5. OnceInv' /\ HandInv' /\ ConflictInv'
  BY <1>1, <1>2 DEF IInv, OnceInv, HandInv, ConflictInv
<1>6. WorkInv' /\ LostOnlyByLeaving'
  BY <1>1, <1>2 DEF IInv, WorkInv, LostOnlyByLeaving, Owner, WorkerUser
<1> QED
  BY <1>3, <1>4, <1>5, <1>6 DEF IInv

LEMMA NextInv == IInv /\ [Next]_vars => IInv'
<1> SUFFICES ASSUME IInv, [Next]_vars
             PROVE  IInv'
  OBVIOUS
<1>1. CASE \E u \in User : Revoke(u) \/ EnterPassword(u)
  BY <1>1, RevokeInv, EnterPasswordInv
<1>2. CASE Login \/ Logout
  BY <1>2, LoginInv, LogoutInv
<1>3. CASE \E W \in {{"screen"}, Side} : Restart(W)
  BY <1>3, RestartInv, Zenon
<1>4. CASE \E o \in Operation : Submit(o) \/ SubmitOrQueue(o) \/ Schedule(o) \/ DiscardPending(o)
  BY <1>4, SubmitInv, SubmitOrQueueInv, ScheduleInv, DiscardPendingInv
<1>5. CASE Refresh \/ RefreshEnds
  BY <1>5, RefreshInv, RefreshEndsInv
<1>6. CASE DoWork \/ WorkerReadsRows \/ WorkEnds \/ WorkFinished
  BY <1>6, DoWorkInv, WorkerReadsRowsInv, WorkEndsInv, WorkFinishedInv
<1>7. CASE \E w \in Side : RestoreSession(w) \/ Synchronise(w)
  BY <1>7, RestoreSessionInv, SynchroniseInv
<1>8. CASE UNCHANGED vars
  BY <1>8, StutterInv
<1> QED
  BY <1>1, <1>2, <1>3, <1>4, <1>5, <1>6, <1>7, <1>8, Zenon DEF Next

\* The invariant holds in every reachable state.
THEOREM QueueInvariant == Spec => []IInv
  BY InitInv, NextInv, PTL DEF Spec

\* Every variable has its type; no operation has two rows, and only operations that have
\* a row are marked as refused.
THEOREM QueueTypeCorrect == Spec => []TypeOK
<1>1. IInv => TypeOK
  BY DEF IInv
<1> QED
  BY <1>1, QueueInvariant, PTL

\* An operation that was sent and not answered has its row, filed under the user who made
\* it, unless that user logged out or the screen went while it was sent, for any number of
\* users, operations, logins and restarts.
THEOREM QueuedUnderItsMaker == Spec => []LostOnlyByLeaving
<1>1. IInv => LostOnlyByLeaving
  BY DEF IInv
<1> QED
  BY <1>1, QueueInvariant, PTL

\* A row that waits under the user who is signed in has work that will come to it, but for
\* the cases of missed.
THEOREM WaitingRowHasWork == Spec => []WaitingHasWork
<1>1. ASSUME IInv
      PROVE  WaitingHasWork
  <2> SUFFICES ASSUME NEW o \in Operation, Waiting(o)
               PROVE  \/ work = "enqueued"
                      \/ work = "running" /\ WorkerUser = Owner(savedToken)
    BY DEF WaitingHasWork
  <2> DEFINE r == [op |-> o, user |-> Owner(savedToken)]
  <2>1. r \in Rows /\ r.op = o /\ r.user = Owner(savedToken)
    BY DEF Waiting
  <2>2. sending[r.op] = "queued" /\ r.op \notin marked \cup missed
    BY <2>1 DEF Waiting
  <2> HIDE DEF r
  <2> QED
    BY <1>1, <2>1, <2>2 DEF IInv, WorkInv
<1> QED
  BY <1>1, QueueInvariant, PTL

-----------------------------------------------------------------------------
(***************************************************************************)
(* Refinement: the promise.  Every step posts operations once and for      *)
(* their makers, and changes the queue by one operation at most.           *)
(***************************************************************************)

\* Removing the row of an operation is forgetting it.
LEMMA RemovedIsForgotten ==
  ASSUME TypeOK, NEW o, RemovePending(o)
  PROVE  Promise!Forget(o)
  BY Removed DEF Promise!Forget

\* A step that leaves the server and the queue alone is a step of the promise.
LEMMA NothingPosted ==
  ASSUME TypeOK, UNCHANGED posted
  PROVE  Promise!Posting
  BY DEF TypeOK, Promise!Posting

\* An operation that got no answer is kept for the first time.
LEMMA SubmitOrQueueKeeps ==
  ASSUME IInv, NEW o \in Operation, SubmitOrQueue(o)
  PROVE  Promise!Next
<1> DEFINE t == sentWith[o]
<1>1. sending[o] = "sent" /\ UNCHANGED marked
  BY DEF SubmitOrQueue
<1>2. Promise!Posting
  <2>1. Unanswered(o, t) \/ Rejected(o, t) \/ Denied(t)
    BY Zenon DEF SubmitOrQueue, GiveUp, Unanswered
  <2> QED
    BY <2>1, ServerPosts DEF IInv
<1>3. CASE UNCHANGED queue
  BY <1>1, <1>2, <1>3, SameRows DEF Promise!Next, Promise!Queueing
<1>4. CASE queue' # queue
  <2> DEFINE row == [op |-> o, user |-> activeUser["screen"]]
  <2>1. activeUser["screen"] # Nobody /\ queue' = Append(queue, row)
    BY <1>4 DEF SubmitOrQueue, QueueOperation, FiledUnder, Enqueue
  <2>2. queue \in Seq(Row) /\ row \in Row /\ row.op = o
    BY <2>1 DEF IInv, TypeOK, Row, Side
  <2> HIDE DEF row
  <2>3. /\ Append(queue, row) \in Seq(Row)
        /\ Len(Append(queue, row)) = Len(queue) + 1
        /\ \A i \in 1..Len(queue) : Append(queue, row)[i] = queue[i]
        /\ Append(queue, row)[Len(queue) + 1] = row
        /\ Len(queue) \in Nat
    BY <2>2, Appended
  <2>4. Rows' = Rows \cup {row}
    BY <2>1, <2>2, <2>3 DEF Rows, Range
  <2>5. Queued' = Queued \cup {o}
    BY <2>2, <2>4 DEF Queued
  <2>6. o \notin Queued
    BY <1>1 DEF IInv, OnceInv
  <2>7. Promise!Keep(o)
    BY <1>1, <2>5, <2>6 DEF Promise!Keep
  <2> QED
    BY <1>2, <2>7 DEF Promise!Next, Promise!Queueing
<1> QED
  BY <1>3, <1>4

\* A row leaves the queue with an answer that tells that the operation is posted; one that
\* tells a refusal is kept.
LEMMA SynchroniseKeeps ==
  ASSUME IInv, NEW w \in Side, Synchronise(w)
  PROVE  Promise!Next
<1> DEFINE o == Head(todo[w])
           t == token[w]
<1>1. o \in Operation
  BY FirstInHand DEF IInv, Synchronise
<1>2. Promise!Posting /\ (Accepted(o, t) => posted'[o] # Nobody)
  <2>1. Unanswered(o, t) \/ Rejected(o, t) \/ Denied(t)
    BY Zenon DEF Synchronise, GiveUp, Unanswered
  <2> HIDE DEF o, t
  <2> QED
    BY <1>1, <2>1, ServerPosts DEF IInv
<1>3. \/ Accepted(o, t) /\ RemovePending(o)
      \/ MarkPending(o)
      \/ UNCHANGED <<queue, marked>>
  BY DEF Synchronise
<1> HIDE DEF o, t
<1>4. CASE Accepted(o, t) /\ RemovePending(o)
  <2>1. Promise!Forget(o)
    BY <1>4, RemovedIsForgotten DEF IInv
  <2>2. CASE o \in Queued
    BY <1>1, <1>2, <1>4, <2>1, <2>2 DEF Promise!Next, Promise!Queueing, Promise!Release
  <2>3. CASE o \notin Queued
    <3>1. UNCHANGED <<Queued, marked>>
      BY <2>1, <2>3 DEF Promise!Forget, IInv, TypeOK
    <3> QED
      BY <1>2, <3>1 DEF Promise!Next, Promise!Queueing
  <2> QED
    BY <2>2, <2>3
<1>5. CASE MarkPending(o)
  <2>1. Queued' = Queued /\ marked' = marked \cup ({o} \cap Queued)
    BY <1>5, SameRows DEF MarkPending
  <2>2. CASE o \in Queued
    BY <1>1, <1>2, <2>1, <2>2 DEF Promise!Next, Promise!Queueing, Promise!Refuse
  <2>3. CASE o \notin Queued
    <3>1. UNCHANGED <<Queued, marked>>
      BY <2>1, <2>3
    <3> QED
      BY <1>2, <3>1 DEF Promise!Next, Promise!Queueing
  <2> QED
    BY <2>2, <2>3
<1>6. CASE UNCHANGED <<queue, marked>>
  BY <1>2, <1>6, SameRows DEF Promise!Next, Promise!Queueing
<1> QED
  BY <1>3, <1>4, <1>5, <1>6

\* What the user gives up was refused: what the screen shows as a conflict and is still in
\* the queue is marked.
LEMMA DiscardPendingKeeps ==
  ASSUME IInv, NEW o \in Operation, DiscardPending(o)
  PROVE  Promise!Next
<1>1. o \in shown /\ RemovePending(o) /\ UNCHANGED posted
  BY DEF DiscardPending, server
<1>2. Promise!Posting /\ Promise!Forget(o)
  BY <1>1, NothingPosted, RemovedIsForgotten DEF IInv
<1>3. CASE o \in Queued
  <2>1. o \in marked
    BY <1>1, <1>3 DEF IInv, ConflictInv
  <2> QED
    BY <1>2, <2>1 DEF Promise!Next, Promise!Queueing, Promise!Discard
<1>4. CASE o \notin Queued
  <2>1. UNCHANGED <<Queued, marked>>
    BY <1>2, <1>4 DEF Promise!Forget, IInv, TypeOK
  <2> QED
    BY <1>2, <2>1 DEF Promise!Next, Promise!Queueing
<1> QED
  BY <1>3, <1>4

\* Every other step leaves the queue and the marks alone, though it may let the server
\* handle a request.
LEMMA OtherSteps ==
  ASSUME TypeOK, UNCHANGED <<queue, marked>>, Promise!Posting
  PROVE  Promise!Next
  BY SameRows DEF Promise!Next, Promise!Queueing

LEMMA PromiseStep == IInv /\ [Next]_vars => [Promise!Next]_(Promise!vars)
<1> SUFFICES ASSUME IInv, [Next]_vars
             PROVE  Promise!Next
  OBVIOUS
<1>1. TypeOK
  BY DEF IInv
<1>2. CASE \E o \in Operation : SubmitOrQueue(o)
  BY <1>2, SubmitOrQueueKeeps
<1>3. CASE \E o \in Operation : DiscardPending(o)
  BY <1>3, DiscardPendingKeeps
<1>4. CASE \E w \in Side : Synchronise(w)
  BY <1>4, SynchroniseKeeps
<1>5. CASE \E W \in {{"screen"}, Side} : Restart(W)
  <2>1. \E Q : posted' \in PostedSome(Q) /\ UNCHANGED <<queue, marked>>
    BY <1>5, Zenon DEF Restart
  <2> QED
    BY <1>1, <2>1, RestartPosts, OtherSteps
<1>6. CASE Logout \/ Refresh
  <2>1. CancelSend /\ UNCHANGED <<queue, marked>>
    BY <1>6, Zenon DEF Logout, CancelRefresh, Refresh
  <2> QED
    BY <1>1, <2>1, CancelPosts, OtherSteps
<1>7. CASE \/ \E u \in User : Revoke(u) \/ EnterPassword(u)
           \/ Login \/ RefreshEnds
           \/ \E o \in Operation : Submit(o) \/ Schedule(o)
  <2>1. UNCHANGED <<posted, queue, marked>>
    BY <1>7, Zenon DEF Revoke, EnterPassword, Login, RefreshEnds, Submit, Schedule, server
  <2> QED
    BY <1>1, <2>1, NothingPosted, OtherSteps
<1>8. CASE \/ DoWork \/ WorkerReadsRows \/ WorkEnds \/ WorkFinished
           \/ \E w \in Side : RestoreSession(w)
  <2>1. UNCHANGED <<posted, queue, marked>>
    BY <1>8, Zenon DEF DoWork, WorkerReadsRows, WorkEnds, WorkFinished, RestoreSession, server
  <2> QED
    BY <1>1, <2>1, NothingPosted, OtherSteps
<1>9. CASE UNCHANGED vars
  <2>1. UNCHANGED <<posted, queue, marked>>
    BY <1>9, Zenon DEF vars, server
  <2> QED
    BY <1>1, <2>1, NothingPosted, OtherSteps
<1> QED
  BY <1>2, <1>3, <1>4, <1>5, <1>6, <1>7, <1>8, <1>9, Zenon DEF Next

LEMMA PromiseInit == Init => Promise!Init
<1> SUFFICES ASSUME Init
             PROVE  Promise!Init
  OBVIOUS
<1>1. Queued = Early
  BY EarlyRows DEF Init
<1> QED
  BY <1>1 DEF Init, Promise!Init

\* The application keeps the promise about its queue: an operation of unknown outcome is
\* kept until it is posted, or given up after a refusal, and is posted once for its maker.
THEOREM QueueKeepsPromise == Spec => PromiseSpec
  BY PromiseInit, PromiseStep, QueueInvariant, PTL DEF Spec, PromiseSpec, Promise!Spec
=============================================================================
