------------------------------ MODULE MCUnfBridge ------------------------------
(***************************************************************************)
(* Small instances of UnfBridge: a blocked operation, a mixed adjustment,  *)
(* an operation that cannot be built and one behind them.                  *)
(***************************************************************************)
EXTENDS UnfBridge

CONSTANTS b1, b2

MCItem == 1..4
MCTwoItems == 1..2
MCBlocked == {1}
MCSplit == {2}
MCUnbuildable == {3}
MCRef == 1..4
MCRefTwice == 1..6
=============================================================================
