---------------------------- MODULE MCMobileQueue ----------------------------
(***************************************************************************)
(* Two representatives share a device; both operations are of the first.   *)
(***************************************************************************)
EXTENDS MobileQueue

CONSTANTS ann, bob

MCUser == {ann, bob}
MCOperation == 1..2
MCEarly == {1}
MCMaker == [o \in MCOperation |-> ann]
=============================================================================
