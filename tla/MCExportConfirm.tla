----------------------------- MODULE MCExportConfirm -----------------------------
(***************************************************************************)
(* Small instances of ExportConfirm: three stock documents, one handover,  *)
(* three documents of 1C:UNF.                                              *)
(***************************************************************************)
EXTENDS ExportConfirm, TLC

CONSTANTS h1, h2, h3, d1, d2, d3, m1, e1, e2, e3

Single(e, id) == [path |-> "single", entity |-> e, ids |-> {id}]
Batch(d, ids) == [path |-> "batch", entity |-> d, ids |-> ids]

\* Batches for one document with equal, overlapping and disjoint sets, a second
\* document, not an adjustment, that competes for the same ids, and what the bridge
\* sends for another operation of one document and for a handover.
Confirmations ==
  {Batch(d1, {e1, e2}), Batch(d1, {e1, e3}), Batch(d1, {e3}), Batch(d2, {e2}), Batch(d2, {e1, e2}),
   Single(d3, e3), Single(m1, e1)}

\* Two bridges that have created a document each.
TwoIds == {Single(d1, e1), Single(d1, e2)}

HandlerSymmetry == Permutations(Handler)
=============================================================================
