---------------------------- MODULE MCMobileCore ----------------------------
(***************************************************************************)
(* Budgets: two calls with a start that times out and a new activity, or   *)
(* three calls without, of which two starts may overlap before a stop; and *)
(* two calls alone, for the VPN's start.                                   *)
(***************************************************************************)
EXTENDS MobileCore

Budget(c, t, a) == [calls |-> c, timeouts |-> t, activities |-> a]

TwoOrThree == {Budget(2, 1, 1), Budget(3, 0, 0)}
Two == {Budget(2, 0, 0)}

=============================================================================
