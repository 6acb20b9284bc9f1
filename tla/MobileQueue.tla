------------------------------ MODULE MobileQueue ------------------------------
(***************************************************************************)
(* The queue of operations of the Android application.  A representative's *)
(* operation is sent first, and stored only when no answer came; the       *)
(* screen and a background worker, each with a repository and a token of   *)
(* its own, send the stored ones again.  Meanwhile users log in and out,   *)
(* tokens die, the screen is recreated and the process killed.             *)
(* What a server does with a request, and the arrival of its answer, is    *)
(* one step; a request whose sender gave up may be handled at any time.    *)
(***************************************************************************)
EXTENDS Integers, SequencesExt, FiniteSets

CONSTANTS
  Operation, User, Nobody,
  Maker,         \* the user on whose screen an operation is entered
  First,         \* the user who is signed in at first
  Early,         \* the operations in the queue at first
  MaxLogins,     \* bound: logins
  MaxFailures,   \* bound: requests without an answer
  MaxOutside     \* bound: tokens revoked, screens recreated, processes killed

Side == {"screen", "worker"}
\* A token is the number of its login; 0 is none.
Token == 0..MaxLogins
Row == [op : Operation, user : User]

ASSUME QueueAssumption ==
  /\ Nobody \notin User
  /\ Maker \in [Operation -> User]
  /\ First \in User
  /\ Early \subseteq {o \in Operation : Maker[o] = First} /\ IsFiniteSet(Early)
  /\ MaxLogins \in Nat \ {0} /\ {MaxFailures, MaxOutside} \subseteq Nat

VARIABLES
  posted,      \* on the server: the user in whose name an operation was posted
  logins,      \* the users of the tokens issued
  revoked,     \* the last token of a user that is no longer good
  savedToken, savedUser,  \* encrypted preferences
  queue,       \* pending_operations, by createdAt
  marked,      \* operations of rows with a lastError
  token, activeUser,      \* of the two repositories
  step, todo, conflicts,  \* of restoreSession, login and syncPendingOperations
  user, loading, shown,   \* of the screen; shown is pendingConflicts
  sending,     \* where runOperation is for each operation
  sentWith,    \* the token it was sent with
  work,        \* the unique work
  failures, outside,      \* bounds
  left,        \* operations whose user or screen went while they were sent (history)
  missed       \* rows that the worker need not come to (history)

server == <<posted, logins, revoked>>
saved == <<savedToken, savedUser>>
repositories == <<token, activeUser, step, todo, conflicts>>
screen == <<user, loading, shown>>
submissions == <<sending, sentWith>>
bounds == <<failures, outside>>
vars == <<server, saved, queue, marked, repositories, screen, submissions, work,
          bounds, left, missed>>

Rows == Range(queue)
Queued == {r.op : r \in Rows}

\* The rows in S, in the order of the queue.
Select(S) ==
  LET upTo[i \in 0..Len(queue)] ==
        IF i = 0 THEN <<>>
        ELSE IF queue[i] \in S THEN Append(upTo[i - 1], queue[i]) ELSE upTo[i - 1]
  IN  upTo[Len(queue)]

RowsOf(u) == Select({r \in Rows : r.user = u})
Owner(t) == IF t = 0 THEN Nobody ELSE logins[t]
Sent == {o \in Operation : sending[o] = "sent"}

TypeOK ==
  /\ posted \in [Operation -> User \cup {Nobody}]
  /\ logins \in Seq(User) /\ Len(logins) <= MaxLogins
  /\ revoked \in [User -> 0..Len(logins)]
  /\ savedToken \in 0..Len(logins) /\ savedUser \in User \cup {Nobody}
  /\ queue \in Seq(Row) /\ Cardinality(Queued) = Len(queue)
  /\ marked \subseteq Queued
  /\ token \in [Side -> 0..Len(logins)]
  /\ activeUser \in [Side -> User \cup {Nobody}]
  /\ step \in [Side -> {"off", "login", "me", "rows", "send", "end"}]
  /\ todo \in [Side -> Seq(Operation)] /\ conflicts \in [Side -> SUBSET Operation]
  /\ user \in User \cup {Nobody} /\ loading \in BOOLEAN /\ shown \subseteq Operation
  /\ sending \in [Operation -> {"new", "sent", "stored", "queued", "answered", "lost"}]
  /\ sentWith \in [Operation -> Token]
  /\ work \in {"none", "enqueued", "running", "finishing"}
  /\ failures \in 0..MaxFailures /\ outside \in 0..MaxOutside
  /\ left \subseteq Operation /\ missed \subseteq Operation
  /\ step["worker"] # "off" => work = "running"
  /\ \A w \in Side : step[w] = "send" => todo[w] # <<>>

\* The application runs with a session and the rows of an earlier time.
Init ==
  /\ posted = [o \in Operation |-> Nobody]
  /\ logins = <<First>> /\ revoked = [u \in User |-> 0]
  /\ savedToken = 1 /\ savedUser = First
  /\ queue = SetToSeq({[op |-> o, user |-> First] : o \in Early})
  /\ marked = {}
  /\ token = [w \in Side |-> IF w = "screen" THEN 1 ELSE 0]
  /\ activeUser = [w \in Side |-> IF w = "screen" THEN First ELSE Nobody]
  /\ step = [w \in Side |-> "off"]
  /\ todo = [w \in Side |-> <<>>] /\ conflicts = [w \in Side |-> {}]
  /\ user = First /\ loading = FALSE /\ shown = {}
  /\ sending = [o \in Operation |-> IF o \in Early THEN "queued" ELSE "new"]
  /\ sentWith = [o \in Operation |-> 0]
  /\ work = IF Early = {} THEN "none" ELSE "enqueued"
  /\ failures = 0 /\ outside = 0
  /\ left = {} /\ missed = {}

-----------------------------------------------------------------------------
(* The server *)

Good(t) == t # 0 /\ t > revoked[Owner(t)]

\* Mutant: any representative's token will do.
AnyLocation(o, t) == TRUE

\* _ensure_own_location: an operation belongs to the location of its maker.
Own(o, t) == Owner(t) = Maker[o]

\* A posted operation is answered again by its key.
Posted(o, t) == IF posted[o] = Nobody THEN [posted EXCEPT ![o] = Owner(t)] ELSE posted

\* 200.
Accepted(o, t) ==
  Good(t) /\ Own(o, t) /\ posted' = Posted(o, t) /\ UNCHANGED <<logins, revoked>>

\* 403 for another's location; 404, 409 or 422 for what the operation asks, and 409 even
\* for a posted one when one of its locations is closed by now.
Rejected(o, t) == Good(t) /\ UNCHANGED server

\* 401.
Denied(t) == ~Good(t) /\ UNCHANGED server

\* The answer does not come, whether or not the server handles the request.  That it does
\* so late is the same as at once: a repetition is answered by the key either way.
Unanswered(o, t) == Accepted(o, t) \/ UNCHANGED server

\* The password is changed or reset, or the account disabled: no token is good any more.
Revoke(u) ==
  /\ outside < MaxOutside /\ outside' = outside + 1
  /\ revoked[u] < Len(logins)
  /\ revoked' = [revoked EXCEPT ![u] = Len(logins)]
  /\ UNCHANGED <<posted, logins, saved, queue, marked, repositories, screen,
                 submissions, work, failures, left, missed>>

\* No answer comes, or one of the 5xx.
GiveUp(o, t) ==
  /\ failures < MaxFailures /\ failures' = failures + 1
  /\ Unanswered(o, t)

-----------------------------------------------------------------------------
(* The queue *)

Enqueue(r) == queue' = Append(queue, r)
RemovePending(o) ==
  /\ queue' = Select({r \in Rows : r.op # o})
  /\ marked' = marked \ {o}
MarkPending(o) ==
  /\ marked' = marked \cup ({o} \cap Queued)
  /\ UNCHANGED queue

\* schedule with ExistingWorkPolicy.KEEP.
Scheduled(w) == IF w = "none" THEN "enqueued" ELSE w

-----------------------------------------------------------------------------
(* The screen: sessions *)

Idle(w) ==
  /\ step' = [step EXCEPT ![w] = "off"]
  /\ todo' = [todo EXCEPT ![w] = <<>>]
  /\ conflicts' = [conflicts EXCEPT ![w] = {}]

\* The repository of a worker that ends is gone with it.
WorkerGone ==
  /\ token' = [token EXCEPT !["worker"] = 0]
  /\ activeUser' = [activeUser EXCEPT !["worker"] = Nobody]

\* logout of a repository, the rows of the queue stay.
LogoutOf(w) ==
  /\ token' = [token EXCEPT ![w] = 0]
  /\ activeUser' = [activeUser EXCEPT ![w] = Nobody]
  /\ savedToken' = 0 /\ savedUser' = Nobody
  /\ missed' = missed \cup Queued

EnterPassword(u) ==
  /\ user = Nobody /\ step["screen"] = "off" /\ ~loading
  /\ Len(logins) < MaxLogins
  /\ logins' = Append(logins, u)
  /\ token' = [token EXCEPT !["screen"] = Len(logins')]
  /\ step' = [step EXCEPT !["screen"] = "login"]
  /\ loading' = TRUE
  /\ UNCHANGED <<posted, revoked, saved, queue, marked, activeUser, todo, conflicts,
                 user, shown, submissions, work, bounds, left, missed>>

\* The profile is loaded and the session saved.
Login ==
  LET t == token["screen"]
  IN  /\ step["screen"] = "login"
      /\ Idle("screen")
      /\ \/ /\ Good(t)
            /\ activeUser' = [activeUser EXCEPT !["screen"] = Owner(t)]
            /\ user' = Owner(t)
            /\ savedToken' = t /\ savedUser' = Owner(t)
            /\ UNCHANGED <<token, failures>>
         \/ /\ \/ ~Good(t) /\ UNCHANGED failures
               \/ failures < MaxFailures /\ failures' = failures + 1
            /\ token' = [token EXCEPT !["screen"] = 0]
            /\ UNCHANGED <<activeUser, user, saved>>
      /\ loading' = FALSE
      /\ UNCHANGED <<server, queue, marked, shown, submissions, work, outside, left, missed>>

CancelSend ==
  IF step["screen"] = "send" THEN Unanswered(Head(todo["screen"]), token["screen"])
  ELSE UNCHANGED server

\* A refresh that is under way ends, and so does the display of loading.
CancelRefresh ==
  /\ Idle("screen")
  /\ loading' = (loading /\ step["screen"] = "off")
  /\ CancelSend

\* logout and clearUiSession; an operation that is being sent is not waited for.
Logout ==
  /\ user # Nobody
  /\ LogoutOf("screen")
  /\ CancelRefresh
  /\ user' = Nobody /\ shown' = {}
  /\ left' = left \cup Sent
  /\ UNCHANGED <<queue, marked, submissions, work, bounds>>

\* New repositories take what is saved.
NewRepositories(W) ==
  /\ token' = [w \in Side |-> IF w \in W THEN savedToken ELSE token[w]]
  /\ activeUser' = [w \in Side |-> IF w \in W THEN savedUser ELSE activeUser[w]]
  /\ todo' = [w \in Side |-> IF w \in W THEN <<>> ELSE todo[w]]
  /\ conflicts' = [w \in Side |-> IF w \in W THEN {} ELSE conflicts[w]]

\* The server handles some of the requests Q.
PostedSome(Q) ==
  {[o \in Operation |-> IF o \in H /\ posted[o] = Nobody THEN Maker[o] ELSE posted[o]] :
     H \in SUBSET {q[1] : q \in {r \in Q : Good(r[2]) /\ Own(r[1], r[2])}}}

\* The activity is created again, as when the device is turned, or the process is killed
\* and started again (W has both sides then).  What is being sent is cancelled.
Restart(W) ==
  /\ outside < MaxOutside /\ outside' = outside + 1
  /\ NewRepositories(W)
  /\ step' = [w \in Side |-> IF w \notin W THEN step[w]
                             ELSE IF w = "screen" /\ savedToken # 0 THEN "me" ELSE "off"]
  /\ work' = IF "worker" \in W /\ work # "none" THEN "enqueued" ELSE work
  /\ sending' = [o \in Operation |-> CASE sending[o] = "sent"   -> "lost"
                                       [] sending[o] = "stored" -> "queued"
                                       [] OTHER                 -> sending[o]]
  /\ posted' \in PostedSome({<<o, sentWith[o]>> : o \in Sent}
                             \cup {<<Head(todo[w]), token[w]>> : w \in {v \in W : step[v] = "send"}})
  /\ sentWith' = [o \in Operation |-> 0]
  /\ user' = Nobody /\ loading' = FALSE /\ shown' = {}
  /\ left' = left \cup Sent
  /\ missed' = missed \cup {o \in Operation : sending[o] = "stored"}
  /\ UNCHANGED <<logins, revoked, saved, queue, marked, failures>>

\* restoreSession, for the screen that was created again and for the worker.
Restored(w) ==
  /\ step' = [step EXCEPT ![w] = IF w = "screen" THEN "off" ELSE "rows"]
  /\ user' = IF w = "screen" THEN activeUser'[w] ELSE user
  /\ UNCHANGED <<token, savedToken, work>>

NotRestored(w) ==
  /\ LogoutOf(w)
  /\ step' = [step EXCEPT ![w] = "off"]
  /\ work' = IF w = "worker" THEN "finishing" ELSE work
  /\ UNCHANGED user

RestoreSession(w) ==
  LET t == token[w]
  IN  /\ step[w] = "me"
      /\ \/ /\ Good(t)
            /\ activeUser' = [activeUser EXCEPT ![w] = Owner(t)]
            /\ savedUser' = Owner(t)
            /\ Restored(w)
            /\ UNCHANGED <<failures, missed>>
         \/ ~Good(t) /\ NotRestored(w) /\ UNCHANGED failures
         \/ /\ failures < MaxFailures /\ failures' = failures + 1
            /\ IF savedUser = Nobody THEN NotRestored(w)
               ELSE /\ activeUser' = [activeUser EXCEPT ![w] = savedUser]
                    /\ Restored(w)
                    /\ missed' = IF savedUser = Owner(t) THEN missed ELSE missed \cup Queued
                    /\ UNCHANGED savedUser
      /\ UNCHANGED <<server, queue, marked, todo, conflicts, loading, shown, submissions,
                     outside, left>>

-----------------------------------------------------------------------------
(* The screen: operations *)

\* runOperation and the first attempt of submitOrQueue.
Submit(o) ==
  /\ user = Maker[o] /\ ~loading
  /\ sending[o] = "new"
  /\ sending' = [sending EXCEPT ![o] = "sent"]
  /\ sentWith' = [sentWith EXCEPT ![o] = token["screen"]]
  /\ loading' = TRUE
  /\ UNCHANGED <<server, saved, queue, marked, repositories, user, shown, work, bounds,
                 left, missed>>

\* Mutant: the row is filed under the saved profile.
FiledUnderSaved(u) == savedUser

FiledUnder(u) == u

\* queueOperation asks for the active user only now.
QueueOperation(o) ==
  LET u == FiledUnder(activeUser["screen"])
  IN  IF activeUser["screen"] = Nobody
      THEN /\ sending' = [sending EXCEPT ![o] = "lost"]
           /\ loading' = FALSE
           /\ UNCHANGED queue
      ELSE /\ Enqueue([op |-> o, user |-> u])
           /\ sending' = [sending EXCEPT ![o] = "stored"]
           /\ UNCHANGED loading

SubmitOrQueue(o) ==
  LET t == sentWith[o]
  IN  /\ sending[o] = "sent"
      /\ \/ /\ Accepted(o, t) \/ Rejected(o, t) \/ Denied(t)
            /\ sending' = [sending EXCEPT ![o] = "answered"]
            /\ loading' = FALSE
            /\ UNCHANGED <<queue, failures>>
         \/ GiveUp(o, t) /\ QueueOperation(o)
      /\ sentWith' = [sentWith EXCEPT ![o] = 0]
      /\ UNCHANGED <<saved, marked, repositories, user, shown, work, outside, left, missed>>

\* The user whose rows the worker reads, or is going to if the server answers it.
WorkerUser ==
  IF step["worker"] = "me" THEN Owner(token["worker"]) ELSE activeUser["worker"]

\* The work that is there is kept: one that is about to end, or that is another user's,
\* does not come to the new row.
Schedule(o) ==
  /\ sending[o] = "stored"
  /\ sending' = [sending EXCEPT ![o] = "queued"]
  /\ work' = Scheduled(work)
  /\ loading' = FALSE
  /\ missed' =
       IF \/ work = "finishing"
          \/ work = "running" /\ \E r \in Rows : r.op = o /\ r.user # WorkerUser
       THEN missed \cup {o} ELSE missed
  /\ UNCHANGED <<server, saved, queue, marked, repositories, user, shown, sentWith,
                 bounds, left>>

\* The user gives up an operation that is shown as a conflict.
DiscardPending(o) ==
  /\ user # Nobody /\ o \in shown
  /\ RemovePending(o)
  /\ shown' = shown \ {o}
  /\ UNCHANGED <<server, saved, repositories, user, loading, submissions, work, bounds, left,
                 missed>>

-----------------------------------------------------------------------------
(* syncPendingOperations, on both sides *)

ReadRows(w) ==
  LET rows == RowsOf(activeUser[w])
  IN  /\ todo' = [todo EXCEPT ![w] = [i \in DOMAIN rows |-> rows[i].op]]
      /\ conflicts' = [conflicts EXCEPT ![w] = {r.op : r \in Range(rows)} \cap marked]
      /\ step' = [step EXCEPT ![w] = IF rows = <<>> THEN "end" ELSE "send"]
      /\ UNCHANGED <<token, activeUser>>

\* At the sign-in, by hand, and at every message or opening of the socket; a refresh
\* that is under way is cancelled.
Refresh ==
  /\ user # Nobody
  /\ step["screen"] \in {"off", "send", "end"}
  /\ ReadRows("screen")
  /\ CancelSend
  /\ loading' = TRUE
  /\ UNCHANGED <<saved, queue, marked, user, shown, submissions, work, bounds, left,
                 missed>>

\* doWork, with a repository of its own.  Without a session it leaves all rows alone.
DoWork ==
  /\ work = "enqueued"
  /\ NewRepositories({"worker"})
  /\ work' = IF savedToken = 0 THEN "finishing" ELSE "running"
  /\ step' = [step EXCEPT !["worker"] = IF savedToken = 0 THEN "off" ELSE "me"]
  /\ missed' = IF savedToken = 0 THEN missed \cup Queued ELSE missed
  /\ UNCHANGED <<server, saved, queue, marked, screen, submissions, bounds, left>>

WorkerReadsRows ==
  /\ step["worker"] = "rows"
  /\ ReadRows("worker")
  /\ UNCHANGED <<server, saved, queue, marked, screen, submissions, work, bounds, left,
                 missed>>

\* The next row is sent, or none is left.
Proceed(w) ==
  /\ todo' = [todo EXCEPT ![w] = Tail(@)]
  /\ step' = [step EXCEPT ![w] = IF Len(todo[w]) = 1 THEN "end" ELSE "send"]
  /\ UNCHANGED <<token, activeUser, loading, work>>

\* A token that is no longer good ends the synchronisation; the worker is tried again.
Unauthorized(w) ==
  /\ Idle(w)
  /\ IF w = "screen" THEN loading' = FALSE /\ UNCHANGED <<token, activeUser, work>>
     ELSE work' = "enqueued" /\ WorkerGone /\ UNCHANGED loading

Synchronise(w) ==
  LET o == Head(todo[w])
      t == token[w]
  IN  /\ step[w] = "send"
      /\ \/ /\ Accepted(o, t)
            /\ RemovePending(o)
            /\ conflicts' = [conflicts EXCEPT ![w] = @ \ {o}]
            /\ Proceed(w)
            /\ UNCHANGED failures
         \/ /\ Rejected(o, t)
            /\ MarkPending(o)
            /\ conflicts' = [conflicts EXCEPT ![w] = @ \cup {o}]
            /\ Proceed(w)
            /\ UNCHANGED failures
         \/ /\ Denied(t)
            /\ Unauthorized(w)
            /\ UNCHANGED <<queue, marked, failures>>
         \/ /\ GiveUp(o, t)
            /\ todo' = [todo EXCEPT ![w] = <<>>]
            /\ step' = [step EXCEPT ![w] = "end"]
            /\ UNCHANGED <<queue, marked, conflicts, token, activeUser, loading, work>>
      /\ UNCHANGED <<saved, user, shown, submissions, outside, left, missed>>

\* The rest of refresh: the conflicts are shown and the stock is loaded.
RefreshEnds ==
  /\ step["screen"] = "end"
  /\ shown' = conflicts["screen"]
  /\ loading' = FALSE
  /\ Idle("screen")
  /\ UNCHANGED <<server, saved, queue, marked, token, activeUser, user, submissions, work,
                 bounds, left, missed>>

\* Mutant: the worker does not count what is left.
AlwaysResolved(u, c) == 0

UnresolvedNetworkItems(u, c) == Len(RowsOf(u)) - Cardinality(c)

\* retry or success.  A conflict whose row is gone by now, because the user discarded it or
\* the screen had it delivered, makes up for a row that still waits.
WorkEnds ==
  LET u == activeUser["worker"]
      c == conflicts["worker"]
  IN  /\ step["worker"] = "end"
      /\ work' = IF UnresolvedNetworkItems(u, c) > 0 THEN "enqueued" ELSE "finishing"
      /\ Idle("worker") /\ WorkerGone
      /\ missed' = IF c \subseteq Queued THEN missed ELSE missed \cup Queued
      /\ UNCHANGED <<server, saved, queue, marked, screen, submissions, bounds, left>>

\* The work manager takes note of the success.
WorkFinished ==
  /\ work = "finishing"
  /\ work' = "none"
  /\ UNCHANGED <<server, saved, queue, marked, repositories, screen, submissions, bounds,
                 left, missed>>

-----------------------------------------------------------------------------
Next ==
  \/ \E u \in User : Revoke(u) \/ EnterPassword(u)
  \/ Login \/ Logout \/ \E W \in {{"screen"}, Side} : Restart(W)
  \/ \E o \in Operation : Submit(o) \/ SubmitOrQueue(o) \/ Schedule(o) \/ DiscardPending(o)
  \/ Refresh \/ RefreshEnds
  \/ DoWork \/ WorkerReadsRows \/ WorkEnds \/ WorkFinished
  \/ \E w \in Side : RestoreSession(w) \/ Synchronise(w)

Spec == Init /\ [][Next]_vars

-----------------------------------------------------------------------------
\* An operation that was sent and not answered has its row, filed under the user who made
\* it, unless that user logged out or the screen went while it was sent (submitOrQueue,
\* queueOperation; the comment of clearSession in AppStorage.kt).
LostOnlyByLeaving ==
  \A o \in Operation \ left :
    /\ sending[o] # "lost"
    /\ \A r \in Rows : r.op = o => r.user = Maker[o]

\* A row that waits under the user who is signed in has work that will come to it: it is
\* scheduled, or under way for that user and not yet past its count.  The exceptions are
\* the cases of missed, which only another refresh of the screen delivers (doWork and
\* schedule of PendingSyncWorker.kt).
Waiting(o) ==
  /\ sending[o] = "queued"
  /\ [op |-> o, user |-> Owner(savedToken)] \in Rows
  /\ o \notin marked \cup missed

WaitingHasWork ==
  (\E o \in Operation : Waiting(o)) =>
    \/ work = "enqueued"
    \/ work = "running" /\ WorkerUser = Owner(savedToken)

\* The application keeps the promise about its queue, whatever else happens.
Promise == INSTANCE OperationPromise WITH kept <- Queued, refused <- marked
PromiseSpec == Promise!Spec
=============================================================================
