--------------------------- MODULE DrivePermission ---------------------------
(***************************************************************************)
(* What the fan promises about drive permission, with every reason for     *)
(* granting and revoking it left out: permission is granted only after the *)
(* drive has been held off for the whole hold, at zero demand; direction   *)
(* changes only at a grant; the hardware may take permission away at any   *)
(* time and only a new grant brings it back.                               *)
(***************************************************************************)
EXTENDS Naturals

CONSTANTS HOLD,        \* the DRVOFF hold, a natural, that precedes every grant
          Direction

VARIABLES
  granted,      \* firmware has asked for permission and not given it back
  permission,   \* the hardware latch
  held,         \* time since permission was last revoked, up to HOLD
  demand,       \* the speed reference
  dir           \* the DIR pin

contractVars == <<granted, permission, held, demand, dir>>

Init ==
  /\ granted = FALSE /\ permission = FALSE
  /\ held = 0 /\ demand = 0 /\ dir \in Direction

\* Time may pass in any step.
Ages == held' \in held..HOLD

\* The drive is off and stays off.
Rest ==
  /\ ~granted /\ ~granted' /\ ~permission'
  /\ demand' = 0 /\ Ages /\ UNCHANGED dir

\* The hold has been paid in full.  The latch may refuse: an analog safety
\* lock outranks the arming pulse.
Grant ==
  /\ ~granted /\ granted'
  /\ Ages /\ held' = HOLD
  /\ permission' \in BOOLEAN
  /\ demand = 0 /\ demand' = 0
  /\ dir' \in Direction

\* Under a grant the demand is free and the direction is not.
Drive ==
  /\ granted /\ granted'
  /\ permission' = permission /\ Ages
  /\ demand' \in Nat /\ UNCHANGED dir

\* The latch drops on its own; the grant and the demand are still standing.
Trip ==
  /\ granted /\ granted'
  /\ permission' = FALSE /\ held' = 0
  /\ UNCHANGED <<demand, dir>>

\* Firmware gives permission back, and the hold starts again.
Revoke ==
  /\ ~granted' /\ ~permission'
  /\ held' = 0 /\ demand' = 0 /\ UNCHANGED dir

Next == Rest \/ Grant \/ Drive \/ Trip \/ Revoke

Spec == Init /\ [][Next]_contractVars
=============================================================================
