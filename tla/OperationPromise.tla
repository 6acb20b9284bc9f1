--------------------------- MODULE OperationPromise ---------------------------
(***************************************************************************)
(* What the mobile application promises of an operation whose outcome it   *)
(* does not know: it is kept until the server has posted it, or until the  *)
(* user gives up one that was refused, whatever happens to the session,    *)
(* the screen or the process; and it is posted at most once, in the name   *)
(* of the user who made it.                                                *)
(***************************************************************************)
CONSTANTS
  Operation, User, Nobody,
  Maker,    \* the user who makes an operation
  Early     \* the operations that are kept at first

VARIABLES
  posted,   \* the user in whose name an operation was posted
  kept,     \* operations in the queue
  refused   \* those of them that were answered with a refusal

vars == <<posted, kept, refused>>

Init ==
  /\ posted = [o \in Operation |-> Nobody]
  /\ kept = Early
  /\ refused = {}

\* Operations reach the server at any time, each once and for its maker.
Posting ==
  /\ posted' \in [Operation -> User \cup {Nobody}]
  /\ \A o \in Operation : posted'[o] # posted[o] => posted[o] = Nobody /\ posted'[o] = Maker[o]

Keep(o) == o \notin kept /\ kept' = kept \cup {o} /\ UNCHANGED refused

Refuse(o) == o \in kept /\ refused' = refused \cup {o} /\ UNCHANGED kept

Forget(o) == kept' = kept \ {o} /\ refused' = refused \ {o}

Release(o) == o \in kept /\ posted'[o] # Nobody /\ Forget(o)

Discard(o) == o \in refused /\ Forget(o)

Queueing ==
  \/ \E o \in Operation : Keep(o) \/ Refuse(o) \/ Release(o) \/ Discard(o)
  \/ UNCHANGED <<kept, refused>>

Next == Posting /\ Queueing

Spec == Init /\ [][Next]_vars
=============================================================================
