----------------------------- MODULE Supervisor -----------------------------
(***************************************************************************)
(* The fan supervisor of firmware/core/src/state.rs: a state machine that  *)
(* performs no I/O.  The caller records user commands at any time and,     *)
(* every control tick, polls it with a snapshot of the inputs; a poll      *)
(* returns the burst of actions the caller must apply.                     *)
(*                                                                         *)
(* Time is counted in control ticks.  The program stores instants and      *)
(* subtracts them from "now"; here each instant is the age it has reached, *)
(* saturated at the largest threshold it is ever compared with.            *)
(***************************************************************************)
EXTENDS Integers, Sequences, Functions

CONSTANTS
  SAFE_BOOT_HOLD, CONFIG_CHECK_GRACE, STOPPED_QUIET, ARM_SETTLE, START_TIMEOUT,
  START_QUIET_TIMEOUT, MPET_TIMEOUT, STATUS_STALE_TIMEOUT,
  RUN_CURRENT_PROMOTE_HOLD,    \* durations, in control ticks
  AGE_LIMIT,                   \* where the age of a state saturates
  BUS_FAILURES_BEFORE_FAULT,   \* consecutive failed status reads tolerated
  HALL_PLAUSIBILITY,           \* FG pulses tolerated without a Hall edge
  RPM_USER_MIN_TARGET, RPM_USER_MAX, RAMP_PER_TICK,
  RUN_CURRENT_CAPTURE, RUN_CURRENT_TOLERANCE,
  DutyFor,                     \* speed::duty_for, from speeds to duties
  SpeedRequests,               \* the speeds SetSpeed may carry
  ReleasedMins,                \* the floors set_released_min may be given
  Commands,                    \* the operations the users issue
  Elapsed,                     \* ticks that may pass between two polls
  Inputs                       \* the input snapshots a poll may see

FanState == {"SafeBoot", "IdleOff", "Starting", "Running", "MpetArming",
             "Mpet", "Stopping", "Reversing", "Fault"}

Direction == {"Forward", "Reverse"}

\* FaultReason.  "Mcf" stands for the three ways the MCF itself reports one
\* (a decoded status, nFAULT, ALARM), which the code only ever reports.
FaultReason == {"Mcf", "BusUnreachable", "RailLoss", "HallImplausible",
                "NoRotation", "NeverStopped", "MpetTimedOut", "ConfigUnverified"}

CurrentProfile == {"Acquisition", "Settling", "Running"}

Action == {"ArmPulse", "ClearPermission", "SetSpeedDuty", "SetDirection",
           "SetCurrentProfile", "ClearMcfFault", "StartMpet", "AbortMpet"}

StatusRead == {"Stale", "Fresh", "BusError"}

ConfigCheck == {"Pending", "Unverified", "Provisional", "Tuning", "Verified",
                "Failed"}

CommandName == {"Off", "Disarm", "On", "SetSpeed", "SetDirection", "StartMpet",
                "AbortMpet", "SetReleasedMin"}

\* A snapshot of the input pins, with the edges counted since the last poll
\* and the tach's windowed estimate.  "mcf" says that the MCF reports a fault.
InputSnapshot == [pgood : BOOLEAN, mcf : BOOLEAN, status : StatusRead,
                  config : ConfigCheck, ready : BOOLEAN,
                  fg : Nat, hall : BOOLEAN, measured : Nat]

ASSUME TimingAssumption ==
  /\ SAFE_BOOT_HOLD \in Nat \ {0} /\ CONFIG_CHECK_GRACE \in Nat
  /\ STOPPED_QUIET \in Nat \ {0}  /\ ARM_SETTLE \in Nat \ {0}
  /\ START_TIMEOUT \in Nat        /\ START_QUIET_TIMEOUT \in Nat
  /\ MPET_TIMEOUT \in Nat         /\ STATUS_STALE_TIMEOUT \in Nat \ {0}
  /\ RUN_CURRENT_PROMOTE_HOLD \in Nat
  /\ AGE_LIMIT \in Nat
  /\ SAFE_BOOT_HOLD + CONFIG_CHECK_GRACE =< AGE_LIMIT
  /\ ARM_SETTLE =< AGE_LIMIT          /\ START_TIMEOUT =< AGE_LIMIT
  /\ START_QUIET_TIMEOUT =< AGE_LIMIT /\ MPET_TIMEOUT =< AGE_LIMIT
  /\ Elapsed \subseteq Nat \ {0}

ASSUME SpeedAssumption ==
  /\ RPM_USER_MIN_TARGET \in Nat \ {0} /\ RPM_USER_MAX \in Nat
  /\ RPM_USER_MIN_TARGET =< RPM_USER_MAX
  /\ RAMP_PER_TICK \in Nat
  /\ RUN_CURRENT_CAPTURE \in Nat /\ RUN_CURRENT_TOLERANCE \in Nat
  /\ DutyFor \in [0..RPM_USER_MAX -> Nat]
  /\ DutyFor[0] = 0
  /\ \A s \in RPM_USER_MIN_TARGET..RPM_USER_MAX : DutyFor[s] > 0
  /\ SpeedRequests \subseteq Nat /\ ReleasedMins \subseteq Nat

ASSUME InputAssumption ==
  /\ BUS_FAILURES_BEFORE_FAULT \in Nat \ {0}
  /\ HALL_PLAUSIBILITY \in Nat
  /\ Inputs \subseteq InputSnapshot
  /\ Commands \subseteq CommandName

VARIABLES
  state,             \* the FanState
  since,             \* age of state_entered
  fault, faultAck,   \* the reported reason, and whether a command licensed a clear
  on, speed, direction,            \* what the user has asked for
  appliedDirection,  \* the direction latched on the DIR pin
  releasedMin,       \* the released minimum speed
  ramp, lastDuty,    \* the commanded speed and the duty last emitted for it
  fgQuiet, hallQuiet,\* how long each tach channel has been silent
  fgSinceHall,       \* FG pulses since the last Hall edge
  moved,             \* FG has advanced past start_fg_mark
  busFailures, statusAge,          \* health of the status reader
  config,            \* the verdict seen by the last poll
  mpetRequested, mpetStarted, disarmRequested,
  profile, readyAge, \* the current ceiling, and current_ready_since
  actions            \* the burst returned by the last step

intentVars == <<speed, direction, releasedMin>>
observedVars == <<fgQuiet, hallQuiet, fgSinceHall, busFailures, statusAge, config>>
vars == <<state, since, fault, faultAck, on, speed, direction, appliedDirection,
          releasedMin, ramp, lastDuty, fgQuiet, hallQuiet, fgSinceHall, moved,
          busFailures, statusAge, config, mpetRequested, mpetStarted,
          disarmRequested, profile, readyAge, actions>>

None == "None"
NotReady == -1

Armed == {"Starting", "Running", "Stopping", "Reversing", "MpetArming", "Mpet"}
MpetStates == {"MpetArming", "Mpet"}
Permits(verdict) == verdict \in {"Provisional", "Tuning", "Verified"}

TypeOK ==
  /\ state \in FanState /\ since \in 0..AGE_LIMIT
  /\ fault \in FaultReason \cup {None} /\ faultAck \in BOOLEAN
  /\ on \in BOOLEAN /\ speed \in RPM_USER_MIN_TARGET..RPM_USER_MAX
  /\ direction \in Direction /\ appliedDirection \in Direction
  /\ releasedMin \in RPM_USER_MIN_TARGET..RPM_USER_MAX
  /\ ramp \in 0..RPM_USER_MAX /\ lastDuty \in Nat
  /\ fgQuiet \in 0..STOPPED_QUIET /\ hallQuiet \in 0..STOPPED_QUIET
  /\ fgSinceHall \in 0..(HALL_PLAUSIBILITY + 1) /\ moved \in BOOLEAN
  /\ busFailures \in 0..BUS_FAILURES_BEFORE_FAULT
  /\ statusAge \in 0..STATUS_STALE_TIMEOUT /\ config \in ConfigCheck
  /\ mpetRequested \in BOOLEAN /\ mpetStarted \in BOOLEAN
  /\ disarmRequested \in BOOLEAN /\ profile \in CurrentProfile
  /\ readyAge \in NotReady..RUN_CURRENT_PROMOTE_HOLD
  /\ actions \in Seq(Action)

-----------------------------------------------------------------------------
(* Arithmetic on ages and speeds.                                          *)

\* An age or a count advanced by d, saturating at limit.
Older(age, d, limit) == IF age + d < limit THEN age + d ELSE limit

Clamp(s, lo, hi) == IF s < lo THEN lo ELSE IF s > hi THEN hi ELSE s

\* Ramp::step: move towards target by at most the ramp rate.
RampStep(from, target, dt) ==
  IF from < target THEN Clamp(from + dt * RAMP_PER_TICK, from, target)
                   ELSE Clamp(from - dt * RAMP_PER_TICK, target, from)

AbsDiff(a, b) == IF a < b THEN b - a ELSE a - b

WantsOn == on /\ speed # 0

\* Tach::is_quiet and Tach::hall_implausible.
IsQuiet == fgQuiet >= STOPPED_QUIET /\ hallQuiet >= STOPPED_QUIET
HallImplausible == fgSinceHall > HALL_PLAUSIBILITY

-----------------------------------------------------------------------------
(* Emitting actions.                                                       *)

If(condition, action) == IF condition THEN <<action>> ELSE <<>>

\* Slips: no check for a change, or a check for one profile only; a ceiling
\* that is not put back; a revocation that is not emitted.
DemoteAlways(p) == <<"SetCurrentProfile">>
DemoteRunningOnly(p) == If(p = "Running", "SetCurrentProfile")
KeptCeiling == UNCHANGED profile
RevokingNothing == <<>>

\* set_current_profile(Acquisition) from profile p, and emit_duty from d to e.
Demote(p) == If(p # "Acquisition", "SetCurrentProfile")
EmitDuty(d, e) == If(d # e, "SetSpeedDuty")
LowCeiling == profile' = "Acquisition"
Revoking == <<"ClearPermission">>

\* A slip: the abort is sent only where the host still wants the extraction.
AbortWhereWanted == If(state \in MpetStates /\ mpetRequested, "AbortMpet")

\* An extraction that may be running is aborted.
AbortIfMpet == If(state \in MpetStates, "AbortMpet")

\* transition to another state.  Entering SafeBoot also resets the ramp and
\* forgets the duty without emitting it: Rest is that part, or a fault's.
Enter(s) ==
  /\ state' = s
  /\ since' = 0
  /\ readyAge' = IF s = "Running" THEN readyAge ELSE NotReady

RestKeepsDuty == ramp' = 0 /\ UNCHANGED lastDuty   \* a slip: stale duty cache

Rest == ramp' = 0 /\ lastDuty' = 0

StayNarrow(age) ==   \* a slip: past the hold, the age is kept in too few bits
  state' = state /\ since' = IF state = "SafeBoot" THEN age ELSE age % 2

Stay(age) == state' = state /\ since' = age

\* enter_fault, after the burst "before" has left profile p and duty d.
EnterFault(reason, before, p, d) ==
  /\ fault' = reason
  /\ faultAck' = FALSE
  /\ LowCeiling
  /\ mpetRequested' = (mpetRequested /\ state \notin MpetStates)
  /\ mpetStarted' = (mpetStarted /\ state \notin MpetStates)
  /\ actions' = before \o Revoking \o Demote(p)
                  \o AbortIfMpet \o EmitDuty(d, 0)
  /\ Enter("Fault")
  /\ Rest
  /\ UNCHANGED <<on, appliedDirection, disarmRequested>>

-----------------------------------------------------------------------------
(* Commands.  A command changes intent only, and licenses a fault clear.   *)

AcknowledgeAlways == faultAck' = TRUE   \* a slip: an acknowledgement in advance

Acknowledge == faultAck' = (faultAck \/ state = "Fault")

IntentOnly ==
  /\ actions' = <<>>
  /\ UNCHANGED observedVars
  /\ UNCHANGED <<state, since, fault, appliedDirection, ramp, lastDuty, moved,
                 mpetStarted, profile, readyAge>>

Off ==
  /\ Acknowledge /\ on' = FALSE /\ mpetRequested' = FALSE
  /\ IntentOnly
  /\ UNCHANGED intentVars /\ UNCHANGED disarmRequested

Disarm ==
  /\ Acknowledge /\ on' = FALSE /\ disarmRequested' = TRUE
  /\ IntentOnly
  /\ UNCHANGED intentVars /\ UNCHANGED mpetRequested

On ==
  /\ Acknowledge /\ on' = TRUE /\ mpetRequested' = FALSE
  /\ IntentOnly
  /\ UNCHANGED intentVars /\ UNCHANGED disarmRequested

SetSpeed(s) ==
  /\ Acknowledge /\ mpetRequested' = FALSE
  /\ on' = (s # 0)
  /\ speed' = IF s = 0 THEN speed ELSE Clamp(s, releasedMin, RPM_USER_MAX)
  /\ IntentOnly
  /\ UNCHANGED <<direction, releasedMin, disarmRequested>>

SetDirection(d) ==
  /\ Acknowledge /\ mpetRequested' = FALSE /\ direction' = d
  /\ IntentOnly
  /\ UNCHANGED <<on, speed, releasedMin, disarmRequested>>

StartMpet ==
  /\ Acknowledge
  /\ on' = (on /\ state # "IdleOff")
  /\ mpetRequested' = (mpetRequested \/ state = "IdleOff")
  /\ IntentOnly
  /\ UNCHANGED intentVars /\ UNCHANGED disarmRequested

AbortMpet ==
  /\ Acknowledge /\ mpetRequested' = FALSE
  /\ IntentOnly
  /\ UNCHANGED intentVars /\ UNCHANGED <<on, disarmRequested>>

SetReleasedMinOnly(m) ==   \* a slip: the standing speed is left below the floor
  /\ releasedMin' = Clamp(m, RPM_USER_MIN_TARGET, RPM_USER_MAX)
  /\ IntentOnly
  /\ UNCHANGED <<faultAck, on, speed, direction, mpetRequested, disarmRequested>>

\* set_released_min, a call of its own: it is not a user command and so
\* acknowledges nothing.
SetReleasedMin(m) ==
  /\ releasedMin' = Clamp(m, RPM_USER_MIN_TARGET, RPM_USER_MAX)
  /\ speed' = Clamp(speed, releasedMin', RPM_USER_MAX)
  /\ IntentOnly
  /\ UNCHANGED <<faultAck, on, direction, mpetRequested, disarmRequested>>

Command ==
  \/ "Off" \in Commands /\ Off
  \/ "Disarm" \in Commands /\ Disarm
  \/ "On" \in Commands /\ On
  \/ "SetSpeed" \in Commands /\ \E s \in SpeedRequests : SetSpeed(s)
  \/ "SetDirection" \in Commands /\ \E d \in Direction : SetDirection(d)
  \/ "StartMpet" \in Commands /\ StartMpet
  \/ "AbortMpet" \in Commands /\ AbortMpet
  \/ "SetReleasedMin" \in Commands /\ \E m \in ReleasedMins : SetReleasedMin(m)

-----------------------------------------------------------------------------
(* What every poll observes before it decides anything: the tach, the      *)
(* health of the status reader and the configuration verdict.              *)

Observe(dt, in) ==
  /\ fgQuiet' = IF in.fg > 0 THEN 0 ELSE Older(fgQuiet, dt, STOPPED_QUIET)
  /\ hallQuiet' = IF in.hall THEN 0 ELSE Older(hallQuiet, dt, STOPPED_QUIET)
  /\ fgSinceHall' = IF in.hall THEN 0
                    ELSE Older(fgSinceHall, in.fg, HALL_PLAUSIBILITY + 1)
  /\ busFailures' = IF in.status = "Fresh" THEN 0
                    ELSE IF in.status = "Stale" THEN busFailures
                    ELSE Older(busFailures, 1, BUS_FAILURES_BEFORE_FAULT)
  /\ statusAge' = IF in.status = "Stale"
                    THEN Older(statusAge, dt, STATUS_STALE_TIMEOUT) ELSE 0
  /\ config' = in.config

\* fg_total() > start_fg_mark, once this poll's edges are counted.
Turned(in) == moved \/ in.fg > 0

McfFaultSourceUntimed(in) ==   \* a slip: failures are counted, silence is not
  IF in.mcf THEN "Mcf"
  ELSE IF busFailures' >= BUS_FAILURES_BEFORE_FAULT THEN "BusUnreachable" ELSE None

\* The MCF's own fault sources, in the order the code tries them.
McfFaultSource(in) ==
  IF in.mcf THEN "Mcf"
  ELSE IF \/ busFailures' >= BUS_FAILURES_BEFORE_FAULT
          \/ state \in Armed /\ statusAge' >= STATUS_STALE_TIMEOUT
       THEN "BusUnreachable" ELSE None

ExternalFault(in) ==
  IF state = "SafeBoot" THEN None
  ELSE IF McfFaultSource(in) # None THEN McfFaultSource(in)
  ELSE IF ~in.pgood THEN "RailLoss"
  ELSE IF in.config = "Failed" THEN "ConfigUnverified" ELSE None

Healthy(in) == state # "Fault" /\ ExternalFault(in) = None

\* The verdict has stopped permitting operation outside SafeBoot.
Unpermitted(in) == state # "SafeBoot" /\ ~Permits(in.config)

\* Nothing outranks the handler of state s.
InState(s, in) ==
  Healthy(in) /\ ~Unpermitted(in) /\ ~disarmRequested /\ state = s

-----------------------------------------------------------------------------
(* The branches of poll, in the order the code tries them.                 *)

\* poll_fault: only an acknowledged fault is left.
PollFault(dt) ==
  /\ state = "Fault"
  /\ IF faultAck
     THEN /\ fault' = None /\ actions' = <<"ClearMcfFault">>
          /\ Enter("SafeBoot") /\ Rest
     ELSE /\ actions' = <<>> /\ Stay(Older(since, dt, AGE_LIMIT))
          /\ UNCHANGED <<fault, ramp, lastDuty, readyAge>>
  /\ faultAck' = FALSE
  /\ UNCHANGED <<on, appliedDirection, mpetRequested, mpetStarted,
                 disarmRequested, profile>>

PollExternalFault(in) ==
  /\ state # "Fault" /\ ExternalFault(in) # None
  /\ EnterFault(ExternalFault(in), <<>>, profile, lastDuty)

\* The verdict no longer permits operation: no queued request survives it.
PollUnpermitted(in) ==
  /\ Healthy(in) /\ Unpermitted(in)
  /\ on' = FALSE /\ mpetRequested' = FALSE /\ LowCeiling
  /\ actions' = Revoking \o Demote(profile) \o EmitDuty(lastDuty, 0)
  /\ Enter("SafeBoot") /\ Rest
  /\ UNCHANGED <<fault, faultAck, appliedDirection, mpetStarted, disarmRequested>>

PollDisarm(in) ==
  /\ Healthy(in) /\ ~Unpermitted(in) /\ disarmRequested
  /\ disarmRequested' = FALSE /\ mpetRequested' = FALSE /\ mpetStarted' = FALSE
  /\ LowCeiling
  /\ actions' = Revoking \o Demote(profile)
                  \o AbortIfMpet \o EmitDuty(lastDuty, 0)
  /\ Enter("SafeBoot") /\ Rest
  /\ UNCHANGED <<on, fault, faultAck, appliedDirection>>

-----------------------------------------------------------------------------
(* poll_safe_boot.                                                         *)

HoldingForRail(held, in) == ~in.pgood   \* a slip: the hold itself is not waited for

\* The hold is not over, or the rail is not good yet.
Holding(held, in) == held < SAFE_BOOT_HOLD \/ ~in.pgood

\* What a finished hold finds wrong.
SafeBootFault(held, in) ==
  IF Holding(held, in) THEN None
  ELSE IF McfFaultSource(in) # None THEN McfFaultSource(in)
  ELSE IF \/ in.config = "Failed"
          \/ /\ in.config = "Pending"
             /\ held >= SAFE_BOOT_HOLD + CONFIG_CHECK_GRACE
       THEN "ConfigUnverified" ELSE None

Bootable(held, in) ==
  /\ ~Holding(held, in)
  /\ Permits(in.config)
  /\ in.config = "Provisional" => in.ready

PollSafeBoot(dt, in) ==
  LET held == Older(since, dt, AGE_LIMIT)
      discard == ~Holding(held, in) /\ in.config = "Unverified"
  IN /\ InState("SafeBoot", in)
     /\ IF SafeBootFault(held, in) # None
        THEN EnterFault(SafeBootFault(held, in), Demote(profile), "Acquisition", lastDuty)
        ELSE /\ LowCeiling /\ actions' = Demote(profile)
             /\ on' = (on /\ ~discard)
             /\ mpetRequested' = (mpetRequested /\ ~discard)
             /\ IF Bootable(held, in)
                THEN Enter("IdleOff")
                ELSE Stay(held) /\ UNCHANGED readyAge
             /\ UNCHANGED <<fault, faultAck, ramp, lastDuty, appliedDirection,
                            mpetStarted, disarmRequested>>

-----------------------------------------------------------------------------
(* poll_idle, begin_start and begin_mpet.                                  *)

BeginStart ==
  /\ appliedDirection' = direction
  /\ LowCeiling /\ Rest
  /\ actions' = If(direction # appliedDirection, "SetDirection")
                  \o Demote(profile) \o EmitDuty(lastDuty, 0) \o <<"ArmPulse">>
  /\ moved' = FALSE
  /\ Enter("Starting")
  /\ UNCHANGED <<on, fault, faultAck, mpetRequested, mpetStarted, disarmRequested>>

BeginMpet(in) ==
  /\ LowCeiling /\ Rest
  /\ actions' = Demote(profile) \o EmitDuty(lastDuty, 0) \o <<"ArmPulse">>
  /\ mpetStarted' = FALSE
  /\ moved' = Turned(in)
  /\ Enter("MpetArming")
  /\ UNCHANGED <<on, fault, faultAck, appliedDirection, mpetRequested,
                 disarmRequested>>

\* Nothing wanted restarts the wait; a rotor that turns delays the arming.
PollIdle(dt, in) ==
  LET wanted == mpetRequested \/ WantsOn
      waited == Older(since, dt, AGE_LIMIT)
  IN /\ InState("IdleOff", in)
     /\ \/ wanted /\ IsQuiet' /\ mpetRequested /\ BeginMpet(in)
        \/ wanted /\ IsQuiet' /\ ~mpetRequested /\ BeginStart
        \/ /\ wanted /\ ~IsQuiet' /\ waited >= START_QUIET_TIMEOUT
           /\ EnterFault("NeverStopped", <<>>, profile, lastDuty)
           /\ moved' = Turned(in)
        \/ /\ wanted => ~IsQuiet' /\ waited < START_QUIET_TIMEOUT
           /\ Stay(IF wanted THEN waited ELSE 0)
           /\ actions' = <<>> /\ moved' = Turned(in)
           /\ UNCHANGED <<on, fault, faultAck, ramp, lastDuty, appliedDirection,
                          mpetRequested, mpetStarted, disarmRequested, profile,
                          readyAge>>

-----------------------------------------------------------------------------
(* poll_starting.                                                          *)

PollStarting(dt, in) ==
  LET elapsed == Older(since, dt, AGE_LIMIT)
      settled == elapsed >= ARM_SETTLE
      next == IF ~settled THEN ramp
              ELSE IF ramp = 0 THEN releasedMin ELSE RampStep(ramp, speed, dt)
      duty == IF settled THEN DutyFor[next] ELSE lastDuty
  IN /\ InState("Starting", in)
     /\ \/ /\ ~WantsOn
           /\ actions' = Revoking \o EmitDuty(lastDuty, 0)
           /\ Enter("SafeBoot") /\ Rest
           /\ UNCHANGED <<on, fault, faultAck, appliedDirection, mpetRequested,
                          mpetStarted, disarmRequested, profile>>
        \/ /\ WantsOn /\ settled /\ ~Turned(in) /\ elapsed >= START_TIMEOUT
           /\ EnterFault("NoRotation", EmitDuty(lastDuty, duty), profile, duty)
        \/ /\ WantsOn
           /\ settled => Turned(in) \/ elapsed < START_TIMEOUT
           /\ ramp' = next /\ lastDuty' = duty
           /\ actions' = EmitDuty(lastDuty, duty)
           /\ IF settled /\ Turned(in) THEN Enter("Running")
                                      ELSE Stay(elapsed) /\ UNCHANGED readyAge
           /\ UNCHANGED <<on, fault, faultAck, appliedDirection, mpetRequested,
                          mpetStarted, disarmRequested, profile>>

-----------------------------------------------------------------------------
(* poll_running and update_run_current.                                    *)

\* The ramp has reached the user band and the rotor follows it.
Tracking(in) ==
  /\ ramp >= RPM_USER_MIN_TARGET
  /\ AbsDiff(ramp, in.measured) =< RUN_CURRENT_TOLERANCE

\* The current ceiling drops to Settling once rotation is established and is
\* raised to Running after the rotor has tracked the ramp for the hold.
PromotedProfile(dt, in) ==
  LET age == IF readyAge = NotReady THEN 0
             ELSE Older(readyAge, dt, RUN_CURRENT_PROMOTE_HOLD)
  IN IF profile = "Running" THEN <<"Running", readyAge>>
     ELSE IF profile = "Acquisition"
     THEN IF in.measured < RUN_CURRENT_CAPTURE THEN <<profile, readyAge>>
                                               ELSE <<"Settling", NotReady>>
     ELSE IF ~Tracking(in) THEN <<profile, NotReady>>
     ELSE IF age >= RUN_CURRENT_PROMOTE_HOLD THEN <<"Running", NotReady>>
     ELSE <<profile, age>>

PollRunning(dt, in) ==
  LET next == RampStep(ramp, speed, dt)
      promoted == PromotedProfile(dt, in)
  IN /\ InState("Running", in)
     /\ IF HallImplausible'
        THEN EnterFault("HallImplausible", <<>>, profile, lastDuty)
        ELSE /\ UNCHANGED <<on, fault, faultAck, appliedDirection, mpetRequested,
                            mpetStarted, disarmRequested>>
             /\ IF ~WantsOn \/ direction # appliedDirection
                THEN /\ Enter(IF WantsOn THEN "Reversing" ELSE "Stopping")
                     /\ actions' = <<>> /\ UNCHANGED <<ramp, lastDuty, profile>>
                ELSE /\ Stay(Older(since, dt, AGE_LIMIT))
                     /\ profile' = promoted[1] /\ readyAge' = promoted[2]
                     /\ ramp' = next /\ lastDuty' = DutyFor[next]
                     /\ actions' = If(promoted[1] # profile, "SetCurrentProfile")
                                     \o EmitDuty(lastDuty, DutyFor[next])

-----------------------------------------------------------------------------
(* poll_winding_down, the body Stopping and Reversing share.               *)

\* A stop may be called off while it still commands the old direction.
Resumable ==
  state = "Stopping" /\ WantsOn /\ direction = appliedDirection /\ ramp # 0

PollWindingDown(dt, in) ==
  LET next == IF ramp > releasedMin THEN RampStep(ramp, releasedMin, dt) ELSE 0
      duty == IF ramp = 0 THEN lastDuty ELSE DutyFor[next]
      stopped == next = 0 /\ IsQuiet'
  IN /\ InState("Stopping", in) \/ InState("Reversing", in)
     /\ UNCHANGED <<on, fault, faultAck, appliedDirection, mpetRequested,
                    mpetStarted, disarmRequested>>
     /\ IF Resumable
        THEN /\ Enter("Running") /\ actions' = <<>>
             /\ UNCHANGED <<ramp, lastDuty, profile>>
        ELSE IF stopped
        THEN /\ Enter("SafeBoot") /\ Rest /\ LowCeiling
             /\ actions' = EmitDuty(lastDuty, duty) \o Revoking
                             \o Demote(profile)
        ELSE /\ Stay(Older(since, dt, AGE_LIMIT))
             /\ ramp' = next /\ lastDuty' = duty
             /\ actions' = EmitDuty(lastDuty, duty)
             /\ UNCHANGED <<profile, readyAge>>

-----------------------------------------------------------------------------
(* poll_mpet_arming and poll_mpet.                                         *)

PollMpetArming(dt, in) ==
  LET elapsed == Older(since, dt, AGE_LIMIT)
  IN /\ InState("MpetArming", in)
     /\ UNCHANGED <<on, fault, faultAck, appliedDirection, mpetRequested,
                    disarmRequested, profile>>
     /\ \/ /\ ~mpetRequested
           /\ actions' = Revoking
           /\ Enter("SafeBoot") /\ Rest /\ UNCHANGED mpetStarted
        \/ /\ mpetRequested /\ elapsed >= ARM_SETTLE
           /\ actions' = <<"StartMpet">> /\ mpetStarted' = TRUE
           /\ Enter("Mpet") /\ UNCHANGED <<ramp, lastDuty>>
        \/ /\ mpetRequested /\ elapsed < ARM_SETTLE
           /\ actions' = <<>>
           /\ Stay(elapsed) /\ UNCHANGED <<ramp, lastDuty, mpetStarted, readyAge>>

PollMpet(dt, in) ==
  LET elapsed == Older(since, dt, AGE_LIMIT)
  IN /\ InState("Mpet", in)
     /\ IF elapsed >= MPET_TIMEOUT
        THEN EnterFault("MpetTimedOut", <<>>, profile, lastDuty)
        ELSE /\ UNCHANGED <<on, fault, faultAck, appliedDirection, mpetRequested,
                            disarmRequested, profile>>
             /\ IF mpetRequested
                THEN /\ Stay(elapsed) /\ actions' = <<>>
                     /\ UNCHANGED <<ramp, lastDuty, mpetStarted, readyAge>>
                ELSE /\ Enter("SafeBoot") /\ Rest /\ mpetStarted' = FALSE
                     /\ actions' = If(mpetStarted, "AbortMpet")
                                     \o Revoking

-----------------------------------------------------------------------------
Poll(dt, in) ==
  /\ Observe(dt, in)
  /\ UNCHANGED intentVars
  /\ \/ PollIdle(dt, in)
     \/ /\ moved' = Turned(in)
        /\ \/ PollFault(dt)
           \/ PollExternalFault(in)
           \/ PollUnpermitted(in)
           \/ PollDisarm(in)
           \/ PollSafeBoot(dt, in)
           \/ PollStarting(dt, in)
           \/ PollRunning(dt, in)
           \/ PollWindingDown(dt, in)
           \/ PollMpetArming(dt, in)
           \/ PollMpet(dt, in)

PollSome == \E dt \in Elapsed, in \in Inputs : Poll(dt, in)

\* Supervisor::new: always off, at zero speed, in SafeBoot.
Init ==
  /\ state = "SafeBoot" /\ since = 0
  /\ fault = None /\ faultAck = FALSE
  /\ on = FALSE /\ speed = RPM_USER_MIN_TARGET
  /\ direction = "Forward" /\ appliedDirection = "Forward"
  /\ releasedMin = RPM_USER_MIN_TARGET
  /\ ramp = 0 /\ lastDuty = 0
  /\ fgQuiet = 0 /\ hallQuiet = 0 /\ fgSinceHall = 0 /\ moved = FALSE
  /\ busFailures = 0 /\ statusAge = 0 /\ config = "Pending"
  /\ mpetRequested = FALSE /\ mpetStarted = FALSE /\ disarmRequested = FALSE
  /\ profile = "Acquisition" /\ readyAge = NotReady
  /\ actions = <<>>

Next == PollSome \/ Command

\* The control loop runs on the highest-priority executor, so polls go on.
Spec == Init /\ [][Next]_vars
FairSpec == Spec /\ WF_vars(PollSome)

-----------------------------------------------------------------------------
(* What must hold of the supervisor.                                       *)

\* The drive is commanded, or MPET is under way, only while the status reader
\* is alive, the bus answers and the verdict permits operation: a reader that
\* died while the fan idled may let a start be armed, but the poll after the
\* arming notices before any speed is commanded (mcf_fault_source).
NoBlindDrive ==
  lastDuty # 0 \/ state = "Mpet" =>
    /\ statusAge < STATUS_STALE_TIMEOUT
    /\ busFailures < BUS_FAILURES_BEFORE_FAULT
    /\ Permits(config)

\* The duty cache agrees with the ramp through every reset, and a commanded
\* speed is never below the qualified minimum and never outlives the states
\* that drive the motor (emit_duty, transition, poll_winding_down).
DutyFollowsRamp ==
  /\ lastDuty = DutyFor[ramp]
  /\ ramp # 0 => /\ ramp >= RPM_USER_MIN_TARGET
                 /\ state \in {"Starting", "Running", "Stopping", "Reversing"}
  /\ state = "Running" => ramp # 0

\* A start or an MPET is armed and brought up with the low acquisition
\* ceiling, whatever the previous run was promoted to (set_current_profile).
CeilingDemoted == profile # "Acquisition" => state \in {"Running", "Stopping", "Reversing"}

\* No poll returns more actions than the audited maximum of three, so nothing
\* is ever dropped from the buffer (push).
BurstFits == Len(actions) =< 3

\* A fault is left only through SafeBoot and only when a command arrived
\* after it was entered: an acknowledgement never predates its fault.
FaultLatched ==
  [][/\ state = "Fault" /\ state' # "Fault" => faultAck /\ state' = "SafeBoot"
     /\ state # "Fault" => ~faultAck']_vars

\* An MPET request and a drive request never stand together, in whatever order
\* the users issue them: an MPET can never roll over into a start (command).
MpetExcludesDrive == mpetRequested => ~on

\* What the supervisor remembers never contradicts itself: the duty and ceiling
\* caches, the ramp, the requests and the types (emit_duty, transition, command).
Consistent == TypeOK /\ DutyFollowsRamp /\ CeilingDemoted /\ MpetExcludesDrive

\* An extraction that may have started is never left running: unless the verdict
\* itself is lost, the poll that leaves Mpet sends the abort together with the
\* revocation (enter_fault, poll_mpet and the disarm branch of poll).
MpetAborted ==
  [][state = "Mpet" /\ state' # "Mpet" /\ Permits(config') =>
       {"AbortMpet", "ClearPermission"} \subseteq Range(actions')]_vars

\* A start always resolves: into rotation, a stop or a fault (START_TIMEOUT).
StartResolves == state = "Starting" ~> state # "Starting"

\* A floor raised under a running fan is reached: the standing setting comes up
\* with it and the ramp follows (set_released_min).
FloorReached ==
  state = "Running" /\ ramp < releasedMin ~> state # "Running" \/ ramp >= releasedMin

\* MPET never lasts for ever, even if the host that asked for it is gone.
MpetResolves == state \in MpetStates ~> state \notin MpetStates

\* A rotor that never goes quiet cannot park a requested start for ever.
IdleResolves == state = "IdleOff" /\ WantsOn ~> state # "IdleOff" \/ ~WantsOn

\* Once nobody wants the fan and its rotor stays silent, the permission is
\* given up for good, from whatever state that finds the supervisor in.
StopCompletes ==
  <>[](~on /\ ~mpetRequested /\ IsQuiet) => <>[](state \notin Armed)

\* SafeBoot does not wait for ever for a verdict that never comes.
BootResolves ==
  state = "SafeBoot" /\ config = "Pending" ~> state # "SafeBoot" \/ config # "Pending"

\* No wait lasts for ever: for rotation, for the host of an extraction, for a
\* rotor that will not go quiet, for one that must, or for a verdict.
WaitsResolve ==
  StartResolves /\ MpetResolves /\ IdleResolves /\ StopCompletes /\ BootResolves

=============================================================================
