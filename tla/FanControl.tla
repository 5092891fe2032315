----------------------------- MODULE FanControl -----------------------------
(***************************************************************************)
(* The supervisor in its control loop: a tick polls it and applies the     *)
(* burst to the board (firmware/app/src/board.rs, main.rs control_task).   *)
(* The loop runs above every other task and does not await between the     *)
(* poll and the last action, so a tick is one step.  The permission latch  *)
(* is hardware, and other hardware may clear it at any time.               *)
(***************************************************************************)
EXTENDS Supervisor

VARIABLES
  permission,   \* the drive-permission latch
  speedRef,     \* DIGITAL_SPEED_DUTY, the reference handed to the MCF
  dirPin,       \* the level of the DIR pin
  ceiling,      \* CURRENT_PROFILE, the ceiling handed to the I2C task
  sinceRevoke   \* how long ago permission was last revoked, up to the hold

boardVars == <<permission, speedRef, dirPin, ceiling, sinceRevoke>>
fanVars == <<vars, boardVars>>

BoardTypeOK ==
  /\ permission \in BOOLEAN
  /\ speedRef \in Nat
  /\ dirPin \in Direction
  /\ ceiling \in CurrentProfile
  /\ sinceRevoke \in 0..SAFE_BOOT_HOLD

FanTypeOK == TypeOK /\ BoardTypeOK

\* MCU_CLEAR_N was low while the board booted, and rose just before.
FanInit ==
  /\ Init
  /\ permission = FALSE /\ speedRef = 0 /\ dirPin = "Forward"
  /\ ceiling = "Acquisition" /\ sinceRevoke = 0

Emitted(action) == action \in Range(actions)

\* Board::apply, for every action of the burst.  The analog safety lock may
\* keep the latch clear in spite of an ARM_PULSE.  A value that is emitted
\* twice in a burst is left as the supervisor last had it.
Apply(dt) ==
  /\ IF Emitted("ClearPermission")' THEN permission' = FALSE
     ELSE IF Emitted("ArmPulse")' THEN permission' \in BOOLEAN
     ELSE UNCHANGED permission
  /\ sinceRevoke' = IF Emitted("ClearPermission")' THEN 0
                    ELSE Older(sinceRevoke, dt, SAFE_BOOT_HOLD)
  /\ speedRef' = IF Emitted("SetSpeedDuty")' THEN lastDuty' ELSE speedRef
  /\ dirPin' = IF Emitted("SetDirection")' THEN appliedDirection' ELSE dirPin
  /\ ceiling' = IF Emitted("SetCurrentProfile")' THEN profile' ELSE ceiling

Tick == \E dt \in Elapsed, in \in Inputs : Poll(dt, in) /\ Apply(dt)

UserCommand == Command /\ UNCHANGED boardVars

\* The watchdog, the overspeed lock or a tach-rail loss clears the latch.
HardwareTrip ==
  /\ permission
  /\ permission' = FALSE /\ sinceRevoke' = 0
  /\ UNCHANGED <<vars, speedRef, dirPin, ceiling>>

FanNext == Tick \/ UserCommand \/ HardwareTrip

FanSpec == FanInit /\ [][FanNext]_fanVars

-----------------------------------------------------------------------------
\* Permission is held only in the states that drive or wind down a motor,
\* never past the poll that saw a verdict which does not permit operation,
\* and never with a bus that has stopped answering.
PermissionEarned ==
  permission => /\ state \in Armed
                /\ Permits(config)
                /\ busFailures < BUS_FAILURES_BEFORE_FAULT

\* What the supervisor believes it last emitted is what the board holds: the
\* caches that suppress repeated actions never drift from the hardware, even
\* where transition forgets the duty without emitting it.
BoardInStep ==
  /\ speedRef = lastDuty
  /\ dirPin = appliedDirection
  /\ ceiling = profile

\* Firmware, latch and pins agree, whatever the burst suppressed and whenever
\* the hardware tripped (Board::apply, emit_duty, set_current_profile).
BoardConsistent == FanTypeOK /\ BoardInStep /\ PermissionEarned

\* Permission rises, and DIR moves, only with permission off for the whole hold
\* since it was last revoked by anyone, a rotor both channels call still, zero
\* speed and the acquisition ceiling (begin_start, begin_mpet).
ArmedAtRest ==
  [][(~permission /\ permission') \/ dirPin' # dirPin =>
       /\ ~permission /\ sinceRevoke' = SAFE_BOOT_HOLD
       /\ fgQuiet' = STOPPED_QUIET /\ hallQuiet' = STOPPED_QUIET
       /\ speedRef = 0 /\ speedRef' = 0
       /\ ceiling' = "Acquisition"]_fanVars

Contract == INSTANCE DrivePermission WITH
  HOLD <- SAFE_BOOT_HOLD, granted <- state \in Armed, held <- sinceRevoke,
  demand <- speedRef, dir <- dirPin

\* The control loop implements the abstract contract on drive permission.
ImplementsContract == Contract!Spec

\* A disarm takes permission away in the next tick, whichever branch of the poll
\* wins there: as long as both stand, nothing but commands has happened.
DisarmRevokes ==
  [][disarmRequested /\ permission /\ permission' =>
       UNCHANGED <<state, since, ramp, statusAge, actions, boardVars>>]_fanVars
=============================================================================
