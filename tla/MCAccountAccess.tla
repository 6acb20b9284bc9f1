--------------------------- MODULE MCAccountAccess ---------------------------
(***************************************************************************)
(* AccountAccess with three logins, one warehouse and two requests at a    *)
(* time.  One administrator is there; root is not, so the server may       *)
(* create it when it starts.                                               *)
(***************************************************************************)
EXTENDS AccountAccess

CONSTANTS root, boss, rep, p1, p2, h1, h2, w1

MCLogin == {root, boss, rep}
MCPassword == {p1, p2}
MCHandler == {h1, h2}
MCPlace == {w1}

Admin ==
  [admin |-> TRUE, place |-> NoPlace, active |-> TRUE, hash |-> [word |-> p1, salt |-> 0],
   failed |-> 0, lock |-> "none"]

MCAttempted == [u \in MCLogin |-> CASE u = boss -> {p1, p2} [] u = root -> {p1} [] u = rep -> {}]

MCAtFirst == {[u \in MCLogin |-> IF u = boss THEN Admin ELSE NoAccount]}
=============================================================================
