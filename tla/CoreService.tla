---------------------------- MODULE CoreService ----------------------------
(***************************************************************************)
(* What nekobox_core promises about its sing-box boxes, with no locks, no  *)
(* contexts and no handlers: at most one box is the active one, it can be  *)
(* replaced only through "none", and every other live box is either a      *)
(* throwaway box of a test or one the core has lost track of.              *)
(***************************************************************************)
CONSTANTS Boxes, Nil

VARIABLES active,  \* the box Stop would close, or Nil
          alive    \* the boxes that have been started and not closed

vars == <<active, alive>>

Init == active = Nil /\ alive = {}

(* A Start that succeeds makes its box the active one. *)
Activate(b) ==
  /\ active = Nil
  /\ b \notin alive
  /\ active' = b
  /\ alive' = alive \cup {b}

(* A Start rejected because a box is active: the core forgets that box. *)
Forget ==
  /\ active # Nil
  /\ active' = Nil
  /\ UNCHANGED alive

(* Stop, or the shutdown hook, closes the active box. *)
Deactivate ==
  /\ active # Nil
  /\ alive' = alive \ {active}
  /\ active' = Nil

(* A test starts and closes a box of its own, never the active one. *)
Probe(b) ==
  /\ b # active
  /\ b \notin alive
  /\ alive' = alive \cup {b}
  /\ UNCHANGED active

EndProbe(b) ==
  /\ b # active
  /\ b \in alive
  /\ alive' = alive \ {b}
  /\ UNCHANGED active

Next ==
  \/ Forget
  \/ Deactivate
  \/ \E b \in Boxes : Activate(b) \/ Probe(b) \/ EndProbe(b)

Spec == Init /\ [][Next]_vars
=============================================================================
