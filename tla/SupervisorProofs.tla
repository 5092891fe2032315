--------------------------- MODULE SupervisorProofs ---------------------------
(***************************************************************************)
(* Theorems about Supervisor, for every value of its constants.            *)
(***************************************************************************)
EXTENDS Supervisor, TLAPS

-----------------------------------------------------------------------------
(* What the arithmetic and the burst helpers return.                       *)

LEMMA OlderType ==
  ASSUME NEW limit \in Nat, NEW age \in 0..limit, NEW d \in Nat
  PROVE  Older(age, d, limit) \in 0..limit
  BY DEF Older

LEMMA ClampType ==
  ASSUME NEW lo \in Int, NEW hi \in Int, lo =< hi, NEW s \in Int
  PROVE  Clamp(s, lo, hi) \in lo..hi
  BY DEF Clamp

\* A step of the ramp lies between where it starts and where it goes.
LEMMA RampStepType ==
  ASSUME NEW lo \in Nat, NEW hi \in Nat,
         NEW from \in lo..hi, NEW target \in lo..hi, NEW dt \in Nat
  PROVE  RampStep(from, target, dt) \in lo..hi
<1> RAMP_PER_TICK \in Nat
  BY SpeedAssumption
<1> dt * RAMP_PER_TICK \in Nat
  OBVIOUS
<1> QED
  BY DEF RampStep, Clamp

LEMMA IfType ==
  ASSUME NEW c, NEW a \in Action
  PROVE  If(c, a) \in Seq(Action)
  BY DEF If

\* The bursts of none and of one action.
LEMMA ShortType ==
  /\ <<>> \in Seq(Action)
  /\ \A a \in Action : <<a>> \in Seq(Action)
  OBVIOUS

LEMMA HelperType ==
  /\ Revoking \in Seq(Action)
  /\ AbortIfMpet \in Seq(Action)
  /\ \A p \in CurrentProfile : Demote(p) \in Seq(Action)
  /\ \A d, e \in Nat : EmitDuty(d, e) \in Seq(Action)
<1>1. Revoking \in Seq(Action)
  BY DEF Revoking, Action
<1>2. AbortIfMpet \in Seq(Action)
  BY DEF AbortIfMpet, If, Action
<1>3. \A p \in CurrentProfile : Demote(p) \in Seq(Action)
  BY IfType DEF Demote, Action
<1>4. \A d, e \in Nat : EmitDuty(d, e) \in Seq(Action)
  BY IfType DEF EmitDuty, Action
<1> QED
  BY <1>1, <1>2, <1>3, <1>4

LEMMA BurstType ==
  ASSUME NEW s \in Seq(Action), NEW t \in Seq(Action)
  PROVE  s \o t \in Seq(Action)
  OBVIOUS

-----------------------------------------------------------------------------
(* Type correctness.  TypeOK is split as a poll writes it: what the user    *)
(* asked for, what was observed, and what the branch taken decides.         *)

IntentType ==
  /\ speed \in RPM_USER_MIN_TARGET..RPM_USER_MAX
  /\ direction \in Direction
  /\ releasedMin \in RPM_USER_MIN_TARGET..RPM_USER_MAX

ObservedType ==
  /\ fgQuiet \in 0..STOPPED_QUIET /\ hallQuiet \in 0..STOPPED_QUIET
  /\ fgSinceHall \in 0..(HALL_PLAUSIBILITY + 1)
  /\ busFailures \in 0..BUS_FAILURES_BEFORE_FAULT
  /\ statusAge \in 0..STATUS_STALE_TIMEOUT /\ config \in ConfigCheck

FlagType ==
  /\ faultAck \in BOOLEAN /\ on \in BOOLEAN
  /\ mpetRequested \in BOOLEAN /\ mpetStarted \in BOOLEAN
  /\ disarmRequested \in BOOLEAN

ControlType ==
  /\ state \in FanState /\ since \in 0..AGE_LIMIT
  /\ fault \in FaultReason \cup {None} /\ appliedDirection \in Direction
  /\ ramp \in 0..RPM_USER_MAX /\ lastDuty \in Nat
  /\ profile \in CurrentProfile
  /\ readyAge \in NotReady..RUN_CURRENT_PROMOTE_HOLD

LEMMA TypeParts ==
  /\ TypeOK <=> /\ IntentType /\ ObservedType /\ FlagType /\ ControlType
                /\ moved \in BOOLEAN /\ actions \in Seq(Action)
  /\ TypeOK' <=> /\ IntentType' /\ ObservedType' /\ FlagType' /\ ControlType'
                 /\ moved' \in BOOLEAN /\ actions' \in Seq(Action)
  BY DEF TypeOK, IntentType, ObservedType, FlagType, ControlType

LEMMA InitType == Init => TypeOK
  BY TimingAssumption, SpeedAssumption, InputAssumption
  DEF Init, TypeOK, FanState, Direction, ConfigCheck, CurrentProfile, NotReady, None

\* No command touches what the polls decide, apart from the flags of intent.
LEMMA IntentOnlyType ==
  ASSUME TypeOK, IntentOnly,
         on' \in BOOLEAN, faultAck' \in BOOLEAN, mpetRequested' \in BOOLEAN,
         disarmRequested' \in BOOLEAN, IntentType'
  PROVE  TypeOK'
<1>1. ObservedType'
  BY DEF TypeOK, IntentOnly, observedVars, ObservedType
<1>2. ControlType' /\ FlagType'
  BY DEF TypeOK, IntentOnly, ControlType, FlagType
<1>3. moved' \in BOOLEAN /\ actions' \in Seq(Action)
  BY DEF TypeOK, IntentOnly
<1> QED
  BY <1>1, <1>2, <1>3, TypeParts

\* Any operation of a caller, whichever of them the users may issue.
Operation ==
  \/ Off \/ Disarm \/ On \/ StartMpet \/ AbortMpet
  \/ \E s \in SpeedRequests : SetSpeed(s)
  \/ \E d \in Direction : SetDirection(d)
  \/ \E m \in ReleasedMins : SetReleasedMin(m)

LEMMA OperationType ==
  ASSUME TypeOK, Operation
  PROVE  TypeOK'
<1> DEFINE Licensed == faultAck' \in BOOLEAN
<1>a. Acknowledge => Licensed
  BY DEF Acknowledge
<1>b. UNCHANGED intentVars => IntentType'
  BY DEF TypeOK, IntentType, intentVars
<1>c. /\ on \in BOOLEAN /\ mpetRequested \in BOOLEAN /\ disarmRequested \in BOOLEAN
      /\ faultAck \in BOOLEAN /\ IntentType
  BY DEF TypeOK, IntentType
<1>1. CASE Off
  BY <1>1, <1>a, <1>b, <1>c, IntentOnlyType DEF Off
<1>2. CASE Disarm
  BY <1>2, <1>a, <1>b, <1>c, IntentOnlyType DEF Disarm
<1>3. CASE On
  BY <1>3, <1>a, <1>b, <1>c, IntentOnlyType DEF On
<1>4. ASSUME NEW s \in SpeedRequests, SetSpeed(s) PROVE TypeOK'
  <2>1. IntentType'
    BY <1>4, <1>c, SpeedAssumption DEF SetSpeed, IntentType, Clamp
  <2> QED
    BY <1>4, <1>a, <1>c, <2>1, IntentOnlyType DEF SetSpeed
<1>5. ASSUME NEW d \in Direction, SetDirection(d) PROVE TypeOK'
  <2>1. IntentType'
    BY <1>5, <1>c DEF SetDirection, IntentType
  <2> QED
    BY <1>5, <1>a, <1>c, <2>1, IntentOnlyType DEF SetDirection
<1>6. CASE StartMpet
  BY <1>6, <1>a, <1>b, <1>c, IntentOnlyType DEF StartMpet
<1>7. CASE AbortMpet
  BY <1>7, <1>a, <1>b, <1>c, IntentOnlyType DEF AbortMpet
<1>8. ASSUME NEW m \in ReleasedMins, SetReleasedMin(m) PROVE TypeOK'
  <2>1. IntentType'
    BY <1>8, <1>c, SpeedAssumption DEF SetReleasedMin, IntentType, Clamp
  <2> QED
    BY <1>8, <1>c, <2>1, IntentOnlyType DEF SetReleasedMin
<1> QED
  BY <1>1, <1>2, <1>3, <1>4, <1>5, <1>6, <1>7, <1>8 DEF Operation

LEMMA CommandType == TypeOK /\ Command => TypeOK'
  BY OperationType DEF Command, Operation

LEMMA ObserveType ==
  ASSUME TypeOK, NEW dt \in Nat, NEW in \in InputSnapshot, Observe(dt, in)
  PROVE  ObservedType'
<1> USE TimingAssumption, InputAssumption
<1>1. /\ 0 \in 0..STOPPED_QUIET /\ 0 \in 0..(HALL_PLAUSIBILITY + 1)
      /\ 0 \in 0..BUS_FAILURES_BEFORE_FAULT /\ 0 \in 0..STATUS_STALE_TIMEOUT
  OBVIOUS
<1>2. in.fg \in Nat /\ in.config \in ConfigCheck
  BY DEF InputSnapshot
<1>3. /\ Older(fgQuiet, dt, STOPPED_QUIET) \in 0..STOPPED_QUIET
      /\ Older(hallQuiet, dt, STOPPED_QUIET) \in 0..STOPPED_QUIET
      /\ Older(statusAge, dt, STATUS_STALE_TIMEOUT) \in 0..STATUS_STALE_TIMEOUT
  BY OlderType DEF TypeOK
<1>4. Older(fgSinceHall, in.fg, HALL_PLAUSIBILITY + 1) \in 0..(HALL_PLAUSIBILITY + 1)
  <2>1. HALL_PLAUSIBILITY + 1 \in Nat /\ fgSinceHall \in 0..(HALL_PLAUSIBILITY + 1)
    BY DEF TypeOK
  <2> QED
    BY <1>2, <2>1, OlderType
<1>5. Older(busFailures, 1, BUS_FAILURES_BEFORE_FAULT) \in 0..BUS_FAILURES_BEFORE_FAULT
  BY OlderType DEF TypeOK
<1>6. busFailures \in 0..BUS_FAILURES_BEFORE_FAULT
  BY DEF TypeOK
<1> QED
  BY <1>1, <1>2, <1>3, <1>4, <1>5, <1>6, Zenon DEF Observe, ObservedType

DecidedType == FlagType /\ ControlType /\ actions \in Seq(Action)

LEMMA EnterFaultType ==
  ASSUME TypeOK, NEW reason \in FaultReason, NEW before \in Seq(Action),
         NEW p \in CurrentProfile, NEW d \in Nat, EnterFault(reason, before, p, d)
  PROVE  DecidedType'
<1>1. FlagType'
  BY Zenon DEF EnterFault, TypeOK, FlagType
<1>2. ControlType'
  BY TimingAssumption, SpeedAssumption
  DEF EnterFault, TypeOK, ControlType, Enter, Rest, LowCeiling, FanState,
      CurrentProfile, NotReady
<1>3. actions' \in Seq(Action)
  BY HelperType, BurstType DEF EnterFault
<1> QED
  BY <1>1, <1>2, <1>3 DEF DecidedType
\* Most branches end by going to SafeBoot with the drive released.
LEMMA RestType ==
  ASSUME TypeOK, NEW t \in FanState, Enter(t), Rest
  PROVE  /\ state' \in FanState /\ since' \in 0..AGE_LIMIT
         /\ ramp' \in 0..RPM_USER_MAX /\ lastDuty' \in Nat
         /\ readyAge' \in NotReady..RUN_CURRENT_PROMOTE_HOLD
  BY TimingAssumption, SpeedAssumption DEF TypeOK, Enter, Rest, NotReady

LEMMA PollFaultType ==
  ASSUME TypeOK, NEW dt \in Nat, PollFault(dt)
  PROVE  DecidedType'
<1>1. FlagType'
  BY DEF PollFault, TypeOK, FlagType
<1>2. ControlType'
  <2>1. CASE faultAck
    BY <2>1, RestType DEF PollFault, TypeOK, ControlType, FanState
  <2>2. CASE ~faultAck
    <3>1. Older(since, dt, AGE_LIMIT) \in 0..AGE_LIMIT
      BY OlderType, TimingAssumption DEF TypeOK
    <3> QED
      BY <2>2, <3>1 DEF PollFault, TypeOK, ControlType, Stay
  <2> QED
    BY <2>1, <2>2
<1>3. actions' \in Seq(Action)
  <2>1. "ClearMcfFault" \in Action
    BY DEF Action
  <2> QED
    BY <2>1, ShortType, Zenon DEF PollFault
<1> QED
  BY <1>1, <1>2, <1>3 DEF DecidedType

LEMMA FaultSourceType ==
  ASSUME NEW in
  PROVE  /\ McfFaultSource(in) \in FaultReason \cup {None}
         /\ ExternalFault(in) \in FaultReason \cup {None}
  BY DEF McfFaultSource, ExternalFault, FaultReason, None

LEMMA PollExternalFaultType ==
  ASSUME TypeOK, NEW in, PollExternalFault(in)
  PROVE  DecidedType'
<1>1. ExternalFault(in) \in FaultReason /\ profile \in CurrentProfile /\ lastDuty \in Nat
  BY FaultSourceType DEF PollExternalFault, TypeOK
<1>2. <<>> \in Seq(Action)
  OBVIOUS
<1> QED
  BY <1>1, <1>2, EnterFaultType DEF PollExternalFault

LEMMA PollUnpermittedType ==
  ASSUME TypeOK, NEW in, PollUnpermitted(in)
  PROVE  DecidedType'
<1>1. FlagType'
  BY DEF PollUnpermitted, TypeOK, FlagType
<1>2. ControlType'
  BY RestType DEF PollUnpermitted, LowCeiling, TypeOK, ControlType, FanState, CurrentProfile
<1>3. actions' \in Seq(Action)
  BY HelperType, BurstType DEF PollUnpermitted, TypeOK
<1> QED
  BY <1>1, <1>2, <1>3 DEF DecidedType

LEMMA PollDisarmType ==
  ASSUME TypeOK, NEW in, PollDisarm(in)
  PROVE  DecidedType'
<1>1. FlagType'
  BY DEF PollDisarm, TypeOK, FlagType
<1>2. ControlType'
  BY RestType DEF PollDisarm, LowCeiling, TypeOK, ControlType, FanState, CurrentProfile
<1>3. actions' \in Seq(Action)
  BY HelperType, BurstType DEF PollDisarm, TypeOK
<1> QED
  BY <1>1, <1>2, <1>3 DEF DecidedType

LEMMA PollSafeBootType ==
  ASSUME TypeOK, NEW dt \in Nat, NEW in, PollSafeBoot(dt, in)
  PROVE  DecidedType'
<1> DEFINE held == Older(since, dt, AGE_LIMIT)
<1>0. held \in 0..AGE_LIMIT
  BY OlderType, TimingAssumption DEF TypeOK
<1>1. CASE SafeBootFault(held, in) # None
  <2>1. SafeBootFault(held, in) \in FaultReason
    BY <1>1, FaultSourceType DEF SafeBootFault, FaultReason, None
  <2>2. EnterFault(SafeBootFault(held, in), Demote(profile), "Acquisition", lastDuty)
    BY <1>1 DEF PollSafeBoot
  <2>3. Demote(profile) \in Seq(Action) /\ "Acquisition" \in CurrentProfile /\ lastDuty \in Nat
    BY HelperType DEF TypeOK, CurrentProfile
  <2> QED
    BY <2>1, <2>2, <2>3, EnterFaultType
<1>2. CASE SafeBootFault(held, in) = None
  <2>1. FlagType'
    BY <1>2, Zenon DEF PollSafeBoot, TypeOK, FlagType
  <2>2. ControlType'
    <3>1. CASE Bootable(held, in)
      BY <1>2, <3>1, TimingAssumption
      DEF PollSafeBoot, Enter, LowCeiling, TypeOK, ControlType, FanState, CurrentProfile,
          NotReady
    <3>2. CASE ~Bootable(held, in)
      BY <1>0, <1>2, <3>2 DEF PollSafeBoot, Stay, LowCeiling, TypeOK, ControlType, CurrentProfile
    <3> QED
      BY <3>1, <3>2
  <2>3. actions' \in Seq(Action)
    BY <1>2, HelperType DEF PollSafeBoot, TypeOK
  <2> QED
    BY <2>1, <2>2, <2>3 DEF DecidedType
<1> QED
  BY <1>1, <1>2
LEMMA PollIdleType ==
  ASSUME TypeOK, NEW dt \in Nat, NEW in, PollIdle(dt, in)
  PROVE  DecidedType' /\ moved' \in BOOLEAN
<1> DEFINE wanted == mpetRequested \/ WantsOn
           waited == Older(since, dt, AGE_LIMIT)
<1>0. waited \in 0..AGE_LIMIT /\ 0 \in 0..AGE_LIMIT
  <2>1. AGE_LIMIT \in Nat /\ since \in 0..AGE_LIMIT
    BY TimingAssumption DEF TypeOK
  <2>2. 0 \in 0..AGE_LIMIT
    BY <2>1
  <2> QED
    BY <2>1, <2>2, OlderType
<1>m. Turned(in) \in BOOLEAN
  BY DEF Turned, TypeOK
<1>1. CASE BeginMpet(in)
  <2>1. FlagType'
    BY <1>1 DEF BeginMpet, TypeOK, FlagType
  <2>2. ControlType'
    BY <1>1, RestType DEF BeginMpet, LowCeiling, TypeOK, ControlType, FanState, CurrentProfile
  <2>3. <<"ArmPulse">> \in Seq(Action)
    BY DEF Action
  <2>4. actions' \in Seq(Action)
    BY <1>1, <2>3, HelperType, BurstType DEF BeginMpet, TypeOK
  <2> QED
    BY <1>1, <1>m, <2>1, <2>2, <2>4 DEF DecidedType, BeginMpet
<1>2. CASE BeginStart
  <2>1. FlagType'
    BY <1>2 DEF BeginStart, TypeOK, FlagType
  <2>2. ControlType'
    BY <1>2, RestType DEF BeginStart, LowCeiling, TypeOK, ControlType, FanState, CurrentProfile
  <2>3. /\ <<"ArmPulse">> \in Seq(Action)
        /\ If(direction # appliedDirection, "SetDirection") \in Seq(Action)
    BY ShortType, IfType DEF Action
  <2>4. actions' \in Seq(Action)
    BY <1>2, <2>3, HelperType, BurstType DEF BeginStart, TypeOK
  <2> QED
    BY <1>2, <2>1, <2>2, <2>4 DEF DecidedType, BeginStart
<1>3. CASE EnterFault("NeverStopped", <<>>, profile, lastDuty) /\ moved' = Turned(in)
  <2>1. "NeverStopped" \in FaultReason /\ profile \in CurrentProfile /\ lastDuty \in Nat
    BY DEF TypeOK, FaultReason
  <2> QED
    BY <1>3, <1>m, <2>1, ShortType, EnterFaultType
<1>4. CASE /\ Stay(IF wanted THEN waited ELSE 0)
           /\ actions' = <<>> /\ moved' = Turned(in)
           /\ UNCHANGED <<on, fault, faultAck, ramp, lastDuty, appliedDirection,
                          mpetRequested, mpetStarted, disarmRequested, profile, readyAge>>
  <2>1. FlagType'
    BY <1>4 DEF TypeOK, FlagType
  <2>2. ControlType'
    BY <1>0, <1>4 DEF Stay, TypeOK, ControlType
  <2> QED
    BY <1>4, <1>m, <2>1, <2>2 DEF DecidedType
<1> QED
  BY <1>1, <1>2, <1>3, <1>4, Zenon DEF PollIdle

LEMMA DutyType ==
  ASSUME NEW r \in 0..RPM_USER_MAX
  PROVE  DutyFor[r] \in Nat
  BY SpeedAssumption

LEMMA PollStartingType ==
  ASSUME TypeOK, NEW dt \in Nat, NEW in, PollStarting(dt, in)
  PROVE  DecidedType'
<1> DEFINE elapsed == Older(since, dt, AGE_LIMIT)
           settled == elapsed >= ARM_SETTLE
           next == IF ~settled THEN ramp
                   ELSE IF ramp = 0 THEN releasedMin ELSE RampStep(ramp, speed, dt)
           duty == IF settled THEN DutyFor[next] ELSE lastDuty
<1>0. elapsed \in 0..AGE_LIMIT
  BY OlderType, TimingAssumption DEF TypeOK
<1>n. next \in 0..RPM_USER_MAX
  <2>1. ramp \in 0..RPM_USER_MAX /\ releasedMin \in 0..RPM_USER_MAX /\ speed \in 0..RPM_USER_MAX
    BY SpeedAssumption DEF TypeOK
  <2>2. RampStep(ramp, speed, dt) \in 0..RPM_USER_MAX
    BY <2>1, RampStepType, SpeedAssumption
  <2> QED
    BY <2>1, <2>2
<1>d. duty \in Nat /\ lastDuty \in Nat /\ profile \in CurrentProfile
  BY <1>n, DutyType DEF TypeOK
<1>b. EmitDuty(lastDuty, duty) \in Seq(Action) /\ EmitDuty(lastDuty, 0) \in Seq(Action)
  BY <1>d, HelperType
<1> HIDE DEF elapsed, next, duty
<1>1. CASE /\ actions' = Revoking \o EmitDuty(lastDuty, 0)
           /\ Enter("SafeBoot") /\ Rest
           /\ UNCHANGED <<on, fault, faultAck, appliedDirection, mpetRequested,
                          mpetStarted, disarmRequested, profile>>
  <2>1. FlagType'
    BY <1>1 DEF TypeOK, FlagType
  <2>2. ControlType'
    BY <1>1, RestType DEF TypeOK, ControlType, FanState
  <2>3. actions' \in Seq(Action)
    BY <1>1, <1>b, HelperType, BurstType
  <2> QED
    BY <2>1, <2>2, <2>3 DEF DecidedType
<1>2. CASE EnterFault("NoRotation", EmitDuty(lastDuty, duty), profile, duty)
  BY <1>2, <1>b, <1>d, EnterFaultType DEF FaultReason
<1>3. CASE /\ ramp' = next /\ lastDuty' = duty
           /\ actions' = EmitDuty(lastDuty, duty)
           /\ IF settled /\ Turned(in) THEN Enter("Running")
                                      ELSE Stay(elapsed) /\ UNCHANGED readyAge
           /\ UNCHANGED <<on, fault, faultAck, appliedDirection, mpetRequested,
                          mpetStarted, disarmRequested, profile>>
  <2>1. FlagType'
    BY <1>3 DEF TypeOK, FlagType
  <2>2. ControlType'
    BY <1>0, <1>n, <1>d, <1>3, TimingAssumption
    DEF TypeOK, ControlType, FanState, Enter, Stay
  <2> QED
    BY <1>3, <1>b, <2>1, <2>2 DEF DecidedType
<1> QED
  BY <1>1, <1>2, <1>3 DEF PollStarting, elapsed, next, duty
LEMMA PromotedType ==
  ASSUME TypeOK, NEW dt \in Nat, NEW in
  PROVE  /\ PromotedProfile(dt, in)[1] \in CurrentProfile
         /\ PromotedProfile(dt, in)[2] \in NotReady..RUN_CURRENT_PROMOTE_HOLD
<1> DEFINE age == IF readyAge = NotReady THEN 0
                  ELSE Older(readyAge, dt, RUN_CURRENT_PROMOTE_HOLD)
<1>1. age \in NotReady..RUN_CURRENT_PROMOTE_HOLD
  <2>1. CASE readyAge = NotReady
    BY <2>1, TimingAssumption DEF NotReady
  <2>2. CASE readyAge # NotReady
    <3>1. readyAge \in 0..RUN_CURRENT_PROMOTE_HOLD
      BY <2>2, TimingAssumption DEF TypeOK, NotReady
    <3>2. Older(readyAge, dt, RUN_CURRENT_PROMOTE_HOLD) \in 0..RUN_CURRENT_PROMOTE_HOLD
      BY <3>1, OlderType, TimingAssumption
    <3> QED
      BY <2>2, <3>2, TimingAssumption DEF NotReady
  <2> QED
    BY <2>1, <2>2
<1>2. NotReady \in NotReady..RUN_CURRENT_PROMOTE_HOLD
  BY TimingAssumption DEF NotReady
<1>3. readyAge \in NotReady..RUN_CURRENT_PROMOTE_HOLD /\ profile \in CurrentProfile
  BY DEF TypeOK
<1> QED
  BY <1>1, <1>2, <1>3 DEF PromotedProfile, CurrentProfile

LEMMA PollRunningType ==
  ASSUME TypeOK, NEW dt \in Nat, NEW in, PollRunning(dt, in)
  PROVE  DecidedType'
<1> DEFINE next == RampStep(ramp, speed, dt)
           promoted == PromotedProfile(dt, in)
<1>0. Older(since, dt, AGE_LIMIT) \in 0..AGE_LIMIT
  BY OlderType, TimingAssumption DEF TypeOK
<1>n. next \in 0..RPM_USER_MAX
  <2>1. ramp \in 0..RPM_USER_MAX /\ speed \in 0..RPM_USER_MAX
    BY SpeedAssumption DEF TypeOK
  <2> QED
    BY <2>1, RampStepType, SpeedAssumption
<1>p. /\ promoted[1] \in CurrentProfile
      /\ promoted[2] \in NotReady..RUN_CURRENT_PROMOTE_HOLD
  BY PromotedType
<1>d. DutyFor[next] \in Nat /\ lastDuty \in Nat /\ profile \in CurrentProfile
  BY <1>n, DutyType DEF TypeOK
<1> HIDE DEF next, promoted
<1>1. CASE HallImplausible'
  BY <1>1, <1>d, ShortType, EnterFaultType DEF PollRunning, FaultReason
<1>2. CASE /\ ~HallImplausible'
           /\ ~WantsOn \/ direction # appliedDirection
  <2>1. FlagType'
    BY <1>2 DEF PollRunning, TypeOK, FlagType
  <2>2. ControlType'
    BY <1>2, TimingAssumption DEF PollRunning, Enter, TypeOK, ControlType, FanState, NotReady
  <2> QED
    BY <1>2, <2>1, <2>2, ShortType DEF PollRunning, DecidedType
<1>3. CASE /\ ~HallImplausible'
           /\ ~(~WantsOn \/ direction # appliedDirection)
  <2>1. FlagType'
    BY <1>3 DEF PollRunning, TypeOK, FlagType
  <2>2. ControlType'
    BY <1>0, <1>n, <1>p, <1>d, <1>3
    DEF PollRunning, Stay, TypeOK, ControlType, next, promoted
  <2>3. If(promoted[1] # profile, "SetCurrentProfile") \in Seq(Action)
    BY IfType DEF Action
  <2>4. actions' \in Seq(Action)
    BY <1>d, <1>3, <2>3, HelperType, BurstType DEF PollRunning, next, promoted
  <2> QED
    BY <2>1, <2>2, <2>4 DEF DecidedType
<1> QED
  BY <1>1, <1>2, <1>3

LEMMA PollWindingDownType ==
  ASSUME TypeOK, NEW dt \in Nat, NEW in, PollWindingDown(dt, in)
  PROVE  DecidedType'
<1> DEFINE next == IF ramp > releasedMin THEN RampStep(ramp, releasedMin, dt) ELSE 0
           duty == IF ramp = 0 THEN lastDuty ELSE DutyFor[next]
           stopped == next = 0 /\ IsQuiet'
<1>0. Older(since, dt, AGE_LIMIT) \in 0..AGE_LIMIT
  BY OlderType, TimingAssumption DEF TypeOK
<1>n. next \in 0..RPM_USER_MAX
  <2>1. ramp \in 0..RPM_USER_MAX /\ releasedMin \in 0..RPM_USER_MAX
    BY SpeedAssumption DEF TypeOK
  <2>2. RampStep(ramp, releasedMin, dt) \in 0..RPM_USER_MAX
    BY <2>1, RampStepType, SpeedAssumption
  <2> QED
    BY <2>2, SpeedAssumption
<1>d. duty \in Nat /\ lastDuty \in Nat /\ profile \in CurrentProfile
  BY <1>n, DutyType DEF TypeOK
<1>f. FlagType'
  BY DEF PollWindingDown, TypeOK, FlagType
<1>b. EmitDuty(lastDuty, duty) \in Seq(Action)
  BY <1>d, HelperType
<1> HIDE DEF next, duty
<1>1. CASE Resumable
  <2>1. ControlType'
    BY <1>1, TimingAssumption DEF PollWindingDown, Enter, TypeOK, ControlType, FanState
  <2> QED
    BY <1>1, <1>f, <2>1, ShortType DEF PollWindingDown, DecidedType
<1>2. CASE ~Resumable /\ stopped
  <2>1. ControlType'
    BY <1>2, RestType
    DEF PollWindingDown, LowCeiling, TypeOK, ControlType, FanState, CurrentProfile, next
  <2>2. actions' \in Seq(Action)
    BY <1>2, <1>b, <1>d, HelperType, BurstType DEF PollWindingDown, next, duty
  <2> QED
    BY <1>f, <2>1, <2>2 DEF DecidedType
<1>3. CASE ~Resumable /\ ~stopped
  <2>1. /\ Stay(Older(since, dt, AGE_LIMIT))
        /\ ramp' = next /\ lastDuty' = duty
        /\ actions' = EmitDuty(lastDuty, duty)
        /\ UNCHANGED <<profile, readyAge>>
    BY <1>3 DEF PollWindingDown, next, duty
  <2>2. ControlType'
    BY <1>0, <1>n, <1>d, <2>1 DEF Stay, TypeOK, ControlType, PollWindingDown
  <2> QED
    BY <1>f, <1>b, <2>1, <2>2 DEF DecidedType
<1> QED
  BY <1>1, <1>2, <1>3

LEMMA PollMpetArmingType ==
  ASSUME TypeOK, NEW dt \in Nat, NEW in, PollMpetArming(dt, in)
  PROVE  DecidedType'
<1>0. Older(since, dt, AGE_LIMIT) \in 0..AGE_LIMIT
  BY OlderType, TimingAssumption DEF TypeOK
<1>1. FlagType'
  BY DEF PollMpetArming, TypeOK, FlagType
<1>2. ControlType'
  <2>1. CASE Enter("SafeBoot") /\ Rest
    BY <2>1, RestType DEF PollMpetArming, TypeOK, ControlType, FanState
  <2>2. CASE Enter("Mpet") /\ UNCHANGED <<ramp, lastDuty>>
    BY <2>2, TimingAssumption
    DEF PollMpetArming, Enter, TypeOK, ControlType, FanState, NotReady
  <2>3. CASE Stay(Older(since, dt, AGE_LIMIT)) /\ UNCHANGED <<ramp, lastDuty, readyAge>>
    BY <1>0, <2>3 DEF PollMpetArming, Stay, TypeOK, ControlType
  <2> QED
    BY <2>1, <2>2, <2>3 DEF PollMpetArming
<1>3. "StartMpet" \in Action
  BY DEF Action
<1>4. actions' \in Seq(Action)
  BY <1>3, ShortType, HelperType DEF PollMpetArming
<1> QED
  BY <1>1, <1>2, <1>4 DEF DecidedType

LEMMA PollMpetType ==
  ASSUME TypeOK, NEW dt \in Nat, NEW in, PollMpet(dt, in)
  PROVE  DecidedType'
<1> DEFINE elapsed == Older(since, dt, AGE_LIMIT)
<1>0. elapsed \in 0..AGE_LIMIT
  BY OlderType, TimingAssumption DEF TypeOK
<1> HIDE DEF elapsed
<1>1. CASE elapsed >= MPET_TIMEOUT
  <2>1. EnterFault("MpetTimedOut", <<>>, profile, lastDuty)
    BY <1>1 DEF PollMpet, elapsed
  <2>2. profile \in CurrentProfile /\ lastDuty \in Nat
    BY DEF TypeOK
  <2> QED
    BY <2>1, <2>2, ShortType, EnterFaultType DEF FaultReason
<1>2. CASE ~(elapsed >= MPET_TIMEOUT)
  <2>1. FlagType'
    BY <1>2 DEF PollMpet, TypeOK, FlagType, elapsed
  <2>2. ControlType'
    BY <1>0, <1>2, RestType DEF PollMpet, Stay, TypeOK, ControlType, FanState, elapsed
  <2>3. If(mpetStarted, "AbortMpet") \in Seq(Action)
    BY IfType DEF Action
  <2>4. actions' \in Seq(Action)
    BY <1>2, <2>3, ShortType, HelperType, BurstType DEF PollMpet, elapsed
  <2> QED
    BY <2>1, <2>2, <2>4 DEF DecidedType
<1> QED
  BY <1>1, <1>2

LEMMA PollType ==
  ASSUME TypeOK, NEW dt \in Nat, NEW in \in InputSnapshot, Poll(dt, in)
  PROVE  TypeOK'
<1>1. ObservedType'
  BY ObserveType DEF Poll
<1>2. IntentType'
  BY DEF Poll, TypeOK, IntentType, intentVars
<1>3. Turned(in) \in BOOLEAN
  BY DEF Turned, TypeOK
<1>4. DecidedType' /\ moved' \in BOOLEAN
  <2>1. CASE PollIdle(dt, in)
    BY <2>1, PollIdleType
  <2>2. CASE ~PollIdle(dt, in)
    <3>1. moved' \in BOOLEAN
      BY <1>3, <2>2 DEF Poll
    <3>2. DecidedType'
      BY <2>2, PollFaultType, PollExternalFaultType, PollUnpermittedType, PollDisarmType,
         PollSafeBootType, PollStartingType, PollRunningType, PollWindingDownType,
         PollMpetArmingType, PollMpetType
      DEF Poll
    <3> QED
      BY <3>1, <3>2
  <2> QED
    BY <2>1, <2>2
<1> QED
  BY <1>1, <1>2, <1>4, TypeParts DEF DecidedType

\* Type correctness: every variable keeps its range, in particular the speed and
\* the ramp stay within the user band and the burst holds only known actions.
THEOREM TypeCorrect == Spec => []TypeOK
<1>1. Init => TypeOK
  BY InitType
<1>2. TypeOK /\ [Next]_vars => TypeOK'
  <2> SUFFICES ASSUME TypeOK, [Next]_vars PROVE TypeOK'
    OBVIOUS
  <2>1. ASSUME NEW dt \in Elapsed, NEW in \in Inputs, Poll(dt, in) PROVE TypeOK'
    BY <2>1, PollType, TimingAssumption, InputAssumption
  <2>2. CASE Command
    BY <2>2, CommandType
  <2>3. CASE UNCHANGED vars
    BY <2>3 DEF vars, TypeOK
  <2> QED
    BY <2>1, <2>2, <2>3 DEF Next, PollSome
<1> QED
  BY <1>1, <1>2, PTL DEF Spec
-----------------------------------------------------------------------------
(* The duty cache.  DutyFollowsRamp is inductive relative to TypeOK.        *)

LEMMA RestDuty ==
  ASSUME Rest, state' # "Running"
  PROVE  DutyFollowsRamp'
  BY SpeedAssumption DEF Rest, DutyFollowsRamp

LEMMA EnterFaultDuty ==
  ASSUME NEW reason, NEW before, NEW p, NEW d, EnterFault(reason, before, p, d)
  PROVE  DutyFollowsRamp'
  BY RestDuty DEF EnterFault, Enter

LEMMA PollSafeBootDuty ==
  ASSUME DutyFollowsRamp, NEW dt, NEW in, PollSafeBoot(dt, in)
  PROVE  DutyFollowsRamp'
<1> DEFINE held == Older(since, dt, AGE_LIMIT)
<1>1. CASE SafeBootFault(held, in) # None
  BY <1>1, EnterFaultDuty DEF PollSafeBoot
<1>2. CASE SafeBootFault(held, in) = None
  <2>1. ramp = 0 /\ UNCHANGED <<ramp, lastDuty>> /\ state' # "Running"
    BY <1>2 DEF PollSafeBoot, InState, DutyFollowsRamp, Enter, Stay
  <2> QED
    BY <2>1 DEF DutyFollowsRamp
<1> QED
  BY <1>1, <1>2

LEMMA PollIdleDuty ==
  ASSUME DutyFollowsRamp, NEW dt, NEW in, PollIdle(dt, in)
  PROVE  DutyFollowsRamp'
<1>1. state = "IdleOff" /\ ramp = 0
  BY DEF PollIdle, InState, DutyFollowsRamp
<1>2. CASE BeginMpet(in)
  BY <1>2, RestDuty DEF BeginMpet, Enter
<1>3. CASE BeginStart
  BY <1>3, RestDuty DEF BeginStart, Enter
<1>4. CASE EnterFault("NeverStopped", <<>>, profile, lastDuty)
  BY <1>4, EnterFaultDuty
<1>5. CASE UNCHANGED <<ramp, lastDuty>> /\ state' = state
  BY <1>1, <1>5 DEF DutyFollowsRamp
<1> QED
  BY <1>2, <1>3, <1>4, <1>5 DEF PollIdle, Stay

LEMMA PollStartingDuty ==
  ASSUME TypeOK, DutyFollowsRamp, NEW dt \in Nat, NEW in, PollStarting(dt, in)
  PROVE  DutyFollowsRamp'
<1> DEFINE elapsed == Older(since, dt, AGE_LIMIT)
           settled == elapsed >= ARM_SETTLE
           next == IF ~settled THEN ramp
                   ELSE IF ramp = 0 THEN releasedMin ELSE RampStep(ramp, speed, dt)
           duty == IF settled THEN DutyFor[next] ELSE lastDuty
<1>1. CASE Enter("SafeBoot") /\ Rest
  BY <1>1, RestDuty DEF Enter
<1>2. CASE EnterFault("NoRotation", EmitDuty(lastDuty, duty), profile, duty)
  BY <1>2, EnterFaultDuty
<1>3. CASE /\ ramp' = next /\ lastDuty' = duty
           /\ IF settled /\ Turned(in) THEN Enter("Running")
                                      ELSE Stay(elapsed) /\ UNCHANGED readyAge
  <2>1. state = "Starting" /\ state' \in {"Starting", "Running"}
    BY <1>3 DEF PollStarting, InState, Enter, Stay
  <2>2. settled => next \in RPM_USER_MIN_TARGET..RPM_USER_MAX
    <3>1. releasedMin \in RPM_USER_MIN_TARGET..RPM_USER_MAX
      BY DEF TypeOK
    <3>2. speed \in RPM_USER_MIN_TARGET..RPM_USER_MAX
      BY DEF TypeOK
    <3>3. ramp # 0 => ramp \in RPM_USER_MIN_TARGET..RPM_USER_MAX
      BY SpeedAssumption DEF TypeOK, DutyFollowsRamp
    <3>4. ramp # 0 => RampStep(ramp, speed, dt) \in RPM_USER_MIN_TARGET..RPM_USER_MAX
      BY <3>2, <3>3, RampStepType, SpeedAssumption
    <3> QED
      BY <3>1, <3>4
  <2>3. CASE settled
    <3>1. /\ ramp' >= RPM_USER_MIN_TARGET /\ ramp' # 0
          /\ lastDuty' = DutyFor[ramp']
      BY <1>3, <2>2, <2>3, SpeedAssumption
    <3> QED
      BY <2>1, <3>1 DEF DutyFollowsRamp
  <2>4. CASE ~settled
    <3>1. UNCHANGED <<ramp, lastDuty>> /\ state' = "Starting"
      BY <1>3, <2>1, <2>4 DEF Stay
    <3> QED
      BY <2>1, <3>1 DEF DutyFollowsRamp
  <2> QED
    BY <2>3, <2>4
<1> QED
  BY <1>1, <1>2, <1>3 DEF PollStarting
LEMMA PollRunningDuty ==
  ASSUME TypeOK, DutyFollowsRamp, NEW dt \in Nat, NEW in, PollRunning(dt, in)
  PROVE  DutyFollowsRamp'
<1> DEFINE next == RampStep(ramp, speed, dt)
<1>0. /\ state = "Running" /\ ramp # 0
      /\ ramp \in RPM_USER_MIN_TARGET..RPM_USER_MAX
      /\ speed \in RPM_USER_MIN_TARGET..RPM_USER_MAX
  BY SpeedAssumption DEF PollRunning, InState, TypeOK, DutyFollowsRamp
<1>1. CASE HallImplausible'
  BY <1>1, EnterFaultDuty DEF PollRunning
<1>2. CASE /\ state' \in {"Reversing", "Stopping"} /\ UNCHANGED <<ramp, lastDuty>>
  BY <1>0, <1>2 DEF DutyFollowsRamp
<1>3. CASE state' = state /\ ramp' = next /\ lastDuty' = DutyFor[next]
  <2>1. next \in RPM_USER_MIN_TARGET..RPM_USER_MAX
    BY <1>0, RampStepType, SpeedAssumption
  <2>2. ramp' >= RPM_USER_MIN_TARGET /\ ramp' # 0
    BY <1>3, <2>1, SpeedAssumption
  <2> QED
    BY <1>0, <1>3, <2>2 DEF DutyFollowsRamp
<1> QED
  BY <1>1, <1>2, <1>3 DEF PollRunning, Enter, Stay

LEMMA PollWindingDownDuty ==
  ASSUME TypeOK, DutyFollowsRamp, NEW dt \in Nat, NEW in, PollWindingDown(dt, in)
  PROVE  DutyFollowsRamp'
<1> DEFINE next == IF ramp > releasedMin THEN RampStep(ramp, releasedMin, dt) ELSE 0
           duty == IF ramp = 0 THEN lastDuty ELSE DutyFor[next]
<1>0. state \in {"Stopping", "Reversing"}
  BY DEF PollWindingDown, InState
<1>1. CASE Resumable /\ state' = "Running" /\ UNCHANGED <<ramp, lastDuty>>
  BY <1>0, <1>1 DEF DutyFollowsRamp, Resumable
<1>2. CASE Enter("SafeBoot") /\ Rest
  BY <1>2, RestDuty DEF Enter
<1>3. CASE state' = state /\ ramp' = next /\ lastDuty' = duty
  <2>1. CASE ramp > releasedMin
    <3>1. /\ ramp \in RPM_USER_MIN_TARGET..RPM_USER_MAX /\ ramp # 0
          /\ releasedMin \in RPM_USER_MIN_TARGET..RPM_USER_MAX
      BY <2>1, SpeedAssumption DEF TypeOK
    <3>2. next \in RPM_USER_MIN_TARGET..RPM_USER_MAX
      BY <2>1, <3>1, RampStepType, SpeedAssumption
    <3>3. lastDuty' = DutyFor[ramp'] /\ ramp' >= RPM_USER_MIN_TARGET
      BY <1>3, <3>1, <3>2, SpeedAssumption
    <3> QED
      BY <1>0, <1>3, <3>3 DEF DutyFollowsRamp
  <2>2. CASE ~(ramp > releasedMin)
    <3>1. ramp' = 0 /\ lastDuty' = DutyFor[0]
      BY <1>3, <2>2 DEF DutyFollowsRamp
    <3> QED
      BY <1>0, <1>3, <3>1 DEF DutyFollowsRamp
  <2> QED
    BY <2>1, <2>2
<1> QED
  BY <1>1, <1>2, <1>3 DEF PollWindingDown, Enter, Stay

LEMMA PollMpetsDuty ==
  ASSUME DutyFollowsRamp, NEW dt, NEW in, PollMpetArming(dt, in) \/ PollMpet(dt, in)
  PROVE  DutyFollowsRamp'
<1>1. state \in MpetStates /\ ramp = 0
  BY DEF PollMpetArming, PollMpet, InState, MpetStates, DutyFollowsRamp
<1>2. CASE UNCHANGED <<ramp, lastDuty>> /\ state' # "Running"
  BY <1>1, <1>2 DEF DutyFollowsRamp
<1>3. CASE Rest /\ state' = "SafeBoot"
  BY <1>3, RestDuty
<1>4. CASE EnterFault("MpetTimedOut", <<>>, profile, lastDuty)
  BY <1>4, EnterFaultDuty
<1> QED
  BY <1>1, <1>2, <1>3, <1>4 DEF PollMpetArming, PollMpet, Enter, Stay, MpetStates

LEMMA DutyInductive ==
  ASSUME TypeOK, DutyFollowsRamp, [Next]_vars
  PROVE  DutyFollowsRamp'
<1>1. ASSUME NEW dt \in Elapsed, NEW in \in Inputs, Poll(dt, in) PROVE DutyFollowsRamp'
  <2> dt \in Nat
    BY TimingAssumption
  <2>1. CASE PollFault(dt)
    <3>1. CASE Rest /\ state' = "SafeBoot"
      BY <3>1, RestDuty
    <3>2. CASE UNCHANGED <<state, ramp, lastDuty>>
      BY <3>2 DEF DutyFollowsRamp
    <3> QED
      BY <2>1, <3>1, <3>2 DEF PollFault, Enter, Stay
  <2>2. CASE PollExternalFault(in)
    BY <2>2, EnterFaultDuty DEF PollExternalFault
  <2>3. CASE PollUnpermitted(in)
    BY <2>3, RestDuty DEF PollUnpermitted, Enter
  <2>4. CASE PollDisarm(in)
    BY <2>4, RestDuty DEF PollDisarm, Enter
  <2>5. CASE PollSafeBoot(dt, in)
    BY <2>5, PollSafeBootDuty
  <2>6. CASE PollIdle(dt, in)
    BY <2>6, PollIdleDuty
  <2>7. CASE PollStarting(dt, in)
    BY <2>7, PollStartingDuty
  <2>8. CASE PollRunning(dt, in)
    BY <2>8, PollRunningDuty
  <2>9. CASE PollWindingDown(dt, in)
    BY <2>9, PollWindingDownDuty
  <2>10. CASE PollMpetArming(dt, in) \/ PollMpet(dt, in)
    BY <2>10, PollMpetsDuty
  <2> QED
    BY <1>1, <2>1, <2>2, <2>3, <2>4, <2>5, <2>6, <2>7, <2>8, <2>9, <2>10 DEF Poll
<1>2. CASE Command
  BY <1>2 DEF Command, Off, Disarm, On, SetSpeed, SetDirection, StartMpet, AbortMpet,
              SetReleasedMin, IntentOnly, DutyFollowsRamp
<1>3. CASE UNCHANGED vars
  BY <1>3 DEF vars, DutyFollowsRamp
<1> QED
  BY <1>1, <1>2, <1>3 DEF Next, PollSome

\* The duty cache agrees with the ramp in every reachable state, for every duty
\* table, band and ramp rate, and no speed below the band is ever commanded.
THEOREM DutyInStep == Spec => []DutyFollowsRamp
<1>1. Init => DutyFollowsRamp
  BY SpeedAssumption DEF Init, DutyFollowsRamp
<1>2. TypeOK /\ DutyFollowsRamp /\ [Next]_vars => DutyFollowsRamp'
  BY DutyInductive
<1> QED
  BY <1>1, <1>2, TypeCorrect, PTL DEF Spec
-----------------------------------------------------------------------------
(* Supervision.  NoBlindDrive is inductive relative to the duty cache.      *)

LEMMA Undriven ==
  ASSUME lastDuty' = 0, state' # "Mpet"
  PROVE  NoBlindDrive'
  BY DEF NoBlindDrive

\* A handler that runs in an armed state has just seen a live reader, a bus that
\* answers and a verdict that permits operation.
LEMMA Supervised ==
  ASSUME NEW dt, NEW in, NEW s \in Armed, InState(s, in), Observe(dt, in), TypeOK,
         statusAge' \in Nat, busFailures' \in Nat
  PROVE  NoBlindDrive'
<1>1. state \in Armed /\ state # "SafeBoot"
  BY DEF InState, Armed
<1>2. McfFaultSource(in) = None /\ Permits(in.config)
  BY <1>1 DEF InState, Healthy, Unpermitted, ExternalFault
<1>3. ~(busFailures' >= BUS_FAILURES_BEFORE_FAULT) /\ ~(statusAge' >= STATUS_STALE_TIMEOUT)
  BY <1>1, <1>2 DEF McfFaultSource, None
<1>4. config' = in.config
  BY DEF Observe
<1> QED
  BY <1>2, <1>3, <1>4, TimingAssumption, InputAssumption DEF NoBlindDrive

LEMMA EnterFaultUndriven ==
  ASSUME NEW reason, NEW before, NEW p, NEW d, EnterFault(reason, before, p, d)
  PROVE  NoBlindDrive'
  BY Undriven DEF EnterFault, Enter, Rest

LEMMA BlindInductive ==
  ASSUME TypeOK, DutyFollowsRamp, NoBlindDrive, [Next]_vars
  PROVE  NoBlindDrive'
<1>1. ASSUME NEW dt \in Elapsed, NEW in \in Inputs, Poll(dt, in) PROVE NoBlindDrive'
  <2> DEFINE held == Older(since, dt, AGE_LIMIT)
  <2>0. Observe(dt, in) /\ statusAge' \in Nat /\ busFailures' \in Nat
    <3>1. Observe(dt, in) /\ dt \in Nat /\ in \in InputSnapshot
      BY <1>1, TimingAssumption, InputAssumption DEF Poll
    <3> QED
      BY <3>1, ObserveType, TimingAssumption, InputAssumption DEF ObservedType
  <2>1. CASE PollFault(dt)
    <3>1. lastDuty = 0
      BY <2>1, SpeedAssumption DEF PollFault, DutyFollowsRamp
    <3>2. lastDuty' = 0 /\ state' \in {"Fault", "SafeBoot"}
      BY <2>1, <3>1 DEF PollFault, Enter, Rest, Stay
    <3> QED
      BY <3>2, Undriven
  <2>2. CASE PollExternalFault(in)
    BY <2>2, EnterFaultUndriven DEF PollExternalFault
  <2>3. CASE PollUnpermitted(in)
    BY <2>3, Undriven DEF PollUnpermitted, Enter, Rest
  <2>4. CASE PollDisarm(in)
    BY <2>4, Undriven DEF PollDisarm, Enter, Rest
  <2>5. CASE PollSafeBoot(dt, in)
    <3>1. lastDuty = 0 /\ state = "SafeBoot"
      BY <2>5, SpeedAssumption DEF PollSafeBoot, InState, DutyFollowsRamp
    <3>2. CASE SafeBootFault(held, in) # None
      BY <2>5, <3>2, EnterFaultUndriven DEF PollSafeBoot
    <3>3. CASE SafeBootFault(held, in) = None
      BY <2>5, <3>1, <3>3, Undriven DEF PollSafeBoot, Enter, Stay
    <3> QED
      BY <3>2, <3>3
  <2>6. CASE PollIdle(dt, in)
    <3>1. lastDuty = 0 /\ state = "IdleOff"
      BY <2>6, SpeedAssumption DEF PollIdle, InState, DutyFollowsRamp
    <3>2. lastDuty' = 0 /\ state' # "Mpet"
      BY <2>6, <3>1 DEF PollIdle, BeginMpet, BeginStart, EnterFault, Enter, Rest, Stay
    <3> QED
      BY <3>2, Undriven
  <2>7. CASE PollStarting(dt, in) \/ PollRunning(dt, in)
    BY <2>0, <2>7, Supervised DEF PollStarting, PollRunning, Armed
  <2>8. CASE PollWindingDown(dt, in)
    BY <2>0, <2>8, Supervised DEF PollWindingDown, Armed
  <2>9. CASE PollMpetArming(dt, in) \/ PollMpet(dt, in)
    BY <2>0, <2>9, Supervised DEF PollMpetArming, PollMpet, Armed
  <2> QED
    BY <1>1, <2>1, <2>2, <2>3, <2>4, <2>5, <2>6, <2>7, <2>8, <2>9 DEF Poll
<1>2. CASE Command
  BY <1>2 DEF Command, Off, Disarm, On, SetSpeed, SetDirection, StartMpet, AbortMpet,
              SetReleasedMin, IntentOnly, observedVars, NoBlindDrive
<1>3. CASE UNCHANGED vars
  BY <1>3 DEF vars, NoBlindDrive
<1> QED
  BY <1>1, <1>2, <1>3 DEF Next, PollSome

\* The drive is never commanded, nor an extraction under way, without a live
\* status reader, an answering bus and a verdict that permits operation.
THEOREM NeverBlind == Spec => []NoBlindDrive
<1>1. Init => NoBlindDrive
  BY DEF Init, NoBlindDrive
<1>2. TypeOK /\ DutyFollowsRamp /\ NoBlindDrive /\ [Next]_vars => NoBlindDrive'
  BY BlindInductive
<1> QED
  BY <1>1, <1>2, TypeCorrect, DutyInStep, PTL DEF Spec

-----------------------------------------------------------------------------
(* The current ceiling and the burst.                                       *)

LEMMA CeilingInductive ==
  ASSUME CeilingDemoted, [Next]_vars
  PROVE  CeilingDemoted'
<1>1. ASSUME NEW dt \in Elapsed, NEW in \in Inputs, Poll(dt, in) PROVE CeilingDemoted'
  <2>1. CASE LowCeiling
    BY <2>1 DEF LowCeiling, CeilingDemoted
  <2>2. CASE PollFault(dt)
    BY <2>2 DEF PollFault, CeilingDemoted, Enter, Stay
  <2>3. CASE PollStarting(dt, in) \/ PollMpetArming(dt, in) \/ PollMpet(dt, in)
    <3>1. profile = "Acquisition"
      BY <2>3 DEF PollStarting, PollMpetArming, PollMpet, InState, CeilingDemoted
    <3>2. profile' = "Acquisition"
      BY <2>3, <3>1 DEF PollStarting, PollMpetArming, PollMpet, EnterFault, LowCeiling
    <3> QED
      BY <3>2 DEF CeilingDemoted
  <2>4. CASE PollRunning(dt, in)
    BY <2>1, <2>4 DEF PollRunning, InState, EnterFault, Enter, Stay, CeilingDemoted
  <2>5. CASE PollWindingDown(dt, in)
    BY <2>1, <2>5 DEF PollWindingDown, InState, Enter, Stay, CeilingDemoted
  <2>6. CASE PollSafeBoot(dt, in) \/ PollIdle(dt, in)
    <3>1. profile = "Acquisition"
      BY <2>6 DEF PollSafeBoot, PollIdle, InState, CeilingDemoted
    <3> QED
      BY <2>1, <2>6, <3>1 DEF PollSafeBoot, PollIdle, BeginStart, BeginMpet, EnterFault,
                              LowCeiling, CeilingDemoted
  <2>7. CASE PollExternalFault(in) \/ PollUnpermitted(in) \/ PollDisarm(in)
    BY <2>1, <2>7 DEF PollExternalFault, PollUnpermitted, PollDisarm, EnterFault
  <2> QED
    BY <1>1, <2>2, <2>3, <2>4, <2>5, <2>6, <2>7 DEF Poll
<1>2. CASE Command
  BY <1>2 DEF Command, Off, Disarm, On, SetSpeed, SetDirection, StartMpet, AbortMpet,
              SetReleasedMin, IntentOnly, CeilingDemoted
<1>3. CASE UNCHANGED vars
  BY <1>3 DEF vars, CeilingDemoted
<1> QED
  BY <1>1, <1>2, <1>3 DEF Next, PollSome

\* Every start and every extraction is armed with the acquisition ceiling.
THEOREM CeilingLow == Spec => []CeilingDemoted
<1>1. Init => CeilingDemoted
  BY DEF Init, CeilingDemoted
<1>2. CeilingDemoted /\ [Next]_vars => CeilingDemoted'
  BY CeilingInductive
<1> QED
  BY <1>1, <1>2, PTL DEF Spec

-----------------------------------------------------------------------------
(* The burst: a sequence of at most n actions, and how many each part adds.  *)

AtMost(s, n) == s \in Seq(Action) /\ Len(s) \in 0..n

LEMMA Joined ==
  ASSUME NEW s, NEW t, NEW m \in Nat, NEW n \in Nat, NEW k \in Nat, m + n =< k,
         AtMost(s, m), AtMost(t, n)
  PROVE  AtMost(s \o t, k)
<1>1. s \in Seq(Action) /\ t \in Seq(Action) /\ Len(s) \in 0..m /\ Len(t) \in 0..n
  BY DEF AtMost
<1>2. s \o t \in Seq(Action) /\ Len(s \o t) = Len(s) + Len(t)
  BY <1>1
<1> QED
  BY <1>1, <1>2 DEF AtMost

LEMMA NoActions == AtMost(<<>>, 0)
<1>1. <<>> \in Seq(Action) /\ Len(<<>>) = 0
  OBVIOUS
<1> QED
  BY <1>1 DEF AtMost

LEMMA OneAction ==
  ASSUME NEW a \in Action
  PROVE  AtMost(<<a>>, 1)
<1>1. <<a>> \in Seq(Action) /\ Len(<<a>>) = 1
  OBVIOUS
<1> QED
  BY <1>1 DEF AtMost

LEMMA MaybeOne ==
  ASSUME NEW c, NEW a \in Action
  PROVE  AtMost(If(c, a), 1) /\ (~c => AtMost(If(c, a), 0))
<1>1. CASE c
  BY <1>1, OneAction DEF If
<1>2. CASE ~c
  <2>1. AtMost(<<>>, 1)
    <3>1. <<>> \in Seq(Action) /\ Len(<<>>) = 0
      OBVIOUS
    <3> QED
      BY <3>1 DEF AtMost
  <2> QED
    BY <1>2, <2>1, NoActions DEF If
<1> QED
  BY <1>1, <1>2

LEMMA PartsAtMost ==
  /\ AtMost(Revoking, 1)
  /\ \A p : AtMost(Demote(p), 1)
  /\ AtMost(Demote("Acquisition"), 0)
  /\ \A d, e : AtMost(EmitDuty(d, e), 1)
  /\ AtMost(AbortIfMpet, 1)
  /\ state \notin MpetStates => AtMost(AbortIfMpet, 0)
<1>1. /\ "ClearPermission" \in Action /\ "SetCurrentProfile" \in Action
      /\ "SetSpeedDuty" \in Action /\ "AbortMpet" \in Action
  BY DEF Action
<1>2. AtMost(Revoking, 1)
  BY <1>1, OneAction DEF Revoking
<1>3. \A p : AtMost(Demote(p), 1) /\ (p = "Acquisition" => AtMost(Demote(p), 0))
  BY <1>1, MaybeOne DEF Demote
<1>4. \A d, e : AtMost(EmitDuty(d, e), 1)
  BY <1>1, MaybeOne DEF EmitDuty
<1>5. AtMost(AbortIfMpet, 1) /\ (state \notin MpetStates => AtMost(AbortIfMpet, 0))
  BY <1>1, MaybeOne DEF AbortIfMpet
<1> QED
  BY <1>2, <1>3, <1>4, <1>5

LEMMA ShortFits ==
  ASSUME AtMost(actions', 3)
  PROVE  BurstFits'
<1>1. \A n \in 0..3 : n =< 3
  OBVIOUS
<1>2. Len(actions') =< 3
  BY <1>1 DEF AtMost
<1> QED
  BY <1>2 DEF BurstFits

\* What a fault adds to the burst it ends, if the ceiling is put back and the
\* extraction aborted at most once between them.
LEMMA EnterFaultBurst ==
  ASSUME NEW reason, NEW before, NEW p, NEW d, EnterFault(reason, before, p, d),
         NEW b \in Nat, NEW c \in Nat, NEW a \in Nat, b + c + a =< 1,
         AtMost(before, b), AtMost(Demote(p), c), AtMost(AbortIfMpet, a)
  PROVE  BurstFits'
<1>1. AtMost(before \o Revoking, b + 1)
  BY Joined, PartsAtMost
<1>2. AtMost(before \o Revoking \o Demote(p), b + c + 1)
  BY <1>1, Joined
<1>3. AtMost(before \o Revoking \o Demote(p) \o AbortIfMpet, 2)
  BY <1>2, Joined, b + c + 1 + a =< 2
<1>4. AtMost(before \o Revoking \o Demote(p) \o AbortIfMpet \o EmitDuty(d, 0), 3)
  BY <1>3, Joined, PartsAtMost
<1> QED
  BY <1>4, ShortFits DEF EnterFault

\* Only an extraction is aborted, and it runs at the acquisition ceiling.
LEMMA DemoteOrAbort ==
  ASSUME CeilingDemoted
  PROVE  \E c \in Nat, a \in Nat : /\ c + a =< 1
                                   /\ AtMost(Demote(profile), c) /\ AtMost(AbortIfMpet, a)
<1>1. CASE state \in MpetStates
  <2>1. AtMost(Demote(profile), 0)
    BY <1>1, PartsAtMost DEF CeilingDemoted, MpetStates
  <2> QED
    BY <2>1, PartsAtMost
<1>2. CASE state \notin MpetStates
  BY <1>2, PartsAtMost
<1> QED
  BY <1>1, <1>2

LEMMA FitsBy ==
  ASSUME NEW s, NEW n \in 0..3, AtMost(s, n), actions' = s
  PROVE  BurstFits'
<1>1. \A k \in 0..n : k =< 3
  OBVIOUS
<1> QED
  BY <1>1 DEF AtMost, BurstFits

\* One step per branch of poll.
LEMMA PollBurst ==
  ASSUME CeilingDemoted, NEW dt \in Elapsed, NEW in \in Inputs, Poll(dt, in)
  PROVE  BurstFits'
<1>0. actions' = <<>> => BurstFits'
  BY NoActions, FitsBy
<1>1. CASE PollFault(dt)
  <2>1. AtMost(<<"ClearMcfFault">>, 1)
    BY OneAction DEF Action
  <2> QED
    BY <1>0, <1>1, <2>1, FitsBy DEF PollFault
<1>2. CASE PollExternalFault(in)
  <2>1. PICK c \in Nat, a \in Nat : /\ c + a =< 1
                                    /\ AtMost(Demote(profile), c) /\ AtMost(AbortIfMpet, a)
    BY DemoteOrAbort
  <2>2. 0 + c + a =< 1
    BY <2>1
  <2> QED
    BY <1>2, <2>1, <2>2, NoActions, EnterFaultBurst DEF PollExternalFault
<1>3. CASE PollUnpermitted(in)
  <2>1. AtMost(Revoking \o Demote(profile), 2)
    BY Joined, PartsAtMost
  <2>2. AtMost(Revoking \o Demote(profile) \o EmitDuty(lastDuty, 0), 3)
    BY <2>1, Joined, PartsAtMost
  <2> QED
    BY <1>3, <2>2, ShortFits DEF PollUnpermitted
<1>4. CASE PollDisarm(in)
  <2>1. PICK c \in Nat, a \in Nat : /\ c + a =< 1
                                    /\ AtMost(Demote(profile), c) /\ AtMost(AbortIfMpet, a)
    BY DemoteOrAbort
  <2>2. AtMost(Revoking \o Demote(profile), 1 + c)
    BY <2>1, Joined, PartsAtMost
  <2>3. AtMost(Revoking \o Demote(profile) \o AbortIfMpet, 2)
    <3>1. (1 + c) + a =< 2 /\ 1 + c \in Nat
      BY <2>1
    <3> QED
      BY <2>1, <2>2, <3>1, Joined
  <2>4. AtMost(Revoking \o Demote(profile) \o AbortIfMpet \o EmitDuty(lastDuty, 0), 3)
    BY <2>3, Joined, PartsAtMost
  <2> QED
    BY <1>4, <2>4, ShortFits DEF PollDisarm
<1>5. CASE PollSafeBoot(dt, in)
  <2>1. profile = "Acquisition" /\ state \notin MpetStates
    BY <1>5 DEF PollSafeBoot, InState, CeilingDemoted, MpetStates
  <2>2. AtMost(Demote(profile), 0) /\ AtMost(AbortIfMpet, 0)
    BY <2>1, PartsAtMost
  <2>3. CASE SafeBootFault(Older(since, dt, AGE_LIMIT), in) # None
    <3>1. EnterFault(SafeBootFault(Older(since, dt, AGE_LIMIT), in), Demote(profile),
                     "Acquisition", lastDuty)
      BY <1>5, <2>3 DEF PollSafeBoot
    <3> QED
      BY <2>2, <3>1, PartsAtMost, EnterFaultBurst
  <2>4. CASE SafeBootFault(Older(since, dt, AGE_LIMIT), in) = None
    <3>1. actions' = Demote(profile)
      BY <1>5, <2>4 DEF PollSafeBoot
    <3> QED
      BY <2>2, <3>1, FitsBy
  <2> QED
    BY <2>3, <2>4
<1>6. CASE PollIdle(dt, in)
  <2>1. profile = "Acquisition" /\ state \notin MpetStates
    BY <1>6 DEF PollIdle, InState, CeilingDemoted, MpetStates
  <2>2. AtMost(Demote(profile), 0) /\ AtMost(AbortIfMpet, 0)
    BY <2>1, PartsAtMost
  <2>3. AtMost(<<"ArmPulse">>, 1)
    BY OneAction DEF Action
  <2>4. AtMost(Demote(profile) \o EmitDuty(lastDuty, 0), 1)
    BY <2>2, Joined, PartsAtMost
  <2>5. CASE BeginMpet(in)
    <3>1. AtMost(Demote(profile) \o EmitDuty(lastDuty, 0) \o <<"ArmPulse">>, 3)
      BY <2>3, <2>4, Joined
    <3> QED
      BY <2>5, <3>1, ShortFits DEF BeginMpet
  <2>6. CASE BeginStart
    <3> DEFINE turn == If(direction # appliedDirection, "SetDirection")
    <3>1. AtMost(turn, 1)
      BY MaybeOne DEF Action
    <3> HIDE DEF turn
    <3>2. AtMost(turn \o Demote(profile), 1)
      BY <2>2, <3>1, Joined
    <3>3. AtMost(turn \o Demote(profile) \o EmitDuty(lastDuty, 0), 2)
      BY <3>2, Joined, PartsAtMost
    <3>4. AtMost(turn \o Demote(profile) \o EmitDuty(lastDuty, 0) \o <<"ArmPulse">>, 3)
      BY <2>3, <3>3, Joined
    <3> QED
      BY <2>6, <3>4, ShortFits DEF BeginStart, turn
  <2>7. CASE EnterFault("NeverStopped", <<>>, profile, lastDuty)
    BY <2>2, <2>7, NoActions, EnterFaultBurst
  <2> QED
    BY <1>0, <1>6, <2>5, <2>6, <2>7 DEF PollIdle
<1>7. CASE PollStarting(dt, in)
  <2>1. profile = "Acquisition" /\ state \notin MpetStates
    BY <1>7 DEF PollStarting, InState, CeilingDemoted, MpetStates
  <2>2. AtMost(Demote(profile), 0) /\ AtMost(AbortIfMpet, 0)
    BY <2>1, PartsAtMost
  <2>3. \A d : EnterFault("NoRotation", EmitDuty(lastDuty, d), profile, d) => BurstFits'
    BY <2>2, PartsAtMost, EnterFaultBurst
  <2>4. AtMost(Revoking \o EmitDuty(lastDuty, 0), 3)
    BY Joined, PartsAtMost
  <2>5. \A d : actions' = EmitDuty(lastDuty, d) => BurstFits'
    BY PartsAtMost, FitsBy
  <2> QED
    BY <1>7, <2>3, <2>4, <2>5, ShortFits DEF PollStarting
<1>8. CASE PollRunning(dt, in)
  <2>1. state \notin MpetStates
    BY <1>8 DEF PollRunning, InState, MpetStates
  <2>2. AtMost(Demote(profile), 1) /\ AtMost(AbortIfMpet, 0)
    BY <2>1, PartsAtMost
  <2>3. EnterFault("HallImplausible", <<>>, profile, lastDuty) => BurstFits'
    BY <2>2, NoActions, EnterFaultBurst
  <2>4. \A c : AtMost(If(c, "SetCurrentProfile"), 1)
    BY MaybeOne DEF Action
  <2>5. \A c, d : AtMost(If(c, "SetCurrentProfile") \o EmitDuty(lastDuty, d), 3)
    BY <2>4, Joined, PartsAtMost
  <2> QED
    BY <1>0, <1>8, <2>3, <2>5, ShortFits DEF PollRunning
<1>9. CASE PollWindingDown(dt, in)
  <2>1. \A d : AtMost(EmitDuty(lastDuty, d) \o Revoking, 2)
    BY Joined, PartsAtMost
  <2>2. \A d : AtMost(EmitDuty(lastDuty, d) \o Revoking \o Demote(profile), 3)
    BY <2>1, Joined, PartsAtMost
  <2>3. \A d : actions' = EmitDuty(lastDuty, d) => BurstFits'
    BY PartsAtMost, FitsBy
  <2> QED
    BY <1>0, <1>9, <2>2, <2>3, ShortFits DEF PollWindingDown
<1>10. CASE PollMpetArming(dt, in)
  <2>1. AtMost(<<"StartMpet">>, 1)
    BY OneAction DEF Action
  <2> QED
    BY <1>0, <1>10, <2>1, PartsAtMost, FitsBy DEF PollMpetArming
<1>11. CASE PollMpet(dt, in)
  <2>1. AtMost(Demote(profile), 0) /\ AtMost(AbortIfMpet, 1)
    BY <1>11, PartsAtMost DEF PollMpet, InState, CeilingDemoted
  <2>2. EnterFault("MpetTimedOut", <<>>, profile, lastDuty) => BurstFits'
    BY <2>1, NoActions, EnterFaultBurst
  <2>3. AtMost(If(mpetStarted, "AbortMpet"), 1)
    BY MaybeOne DEF Action
  <2>4. AtMost(If(mpetStarted, "AbortMpet") \o Revoking, 3)
    BY <2>3, Joined, PartsAtMost
  <2> QED
    BY <1>0, <1>11, <2>2, <2>4, ShortFits DEF PollMpet
<1> QED
  BY <1>1, <1>2, <1>3, <1>4, <1>5, <1>6, <1>7, <1>8, <1>9, <1>10, <1>11 DEF Poll

LEMMA BurstInductive ==
  ASSUME CeilingDemoted, BurstFits, [Next]_vars
  PROVE  BurstFits'
<1>1. CASE Command
  <2>1. actions' = <<>>
    BY <1>1 DEF Command, Off, Disarm, On, SetSpeed, SetDirection, StartMpet, AbortMpet,
                SetReleasedMin, IntentOnly
  <2> QED
    BY <2>1, NoActions, FitsBy
<1>2. CASE UNCHANGED vars
  BY <1>2 DEF vars, BurstFits
<1> QED
  BY <1>1, <1>2, PollBurst DEF Next, PollSome

\* No poll needs more room in the action buffer than it has: the ceiling is low
\* wherever an extraction is aborted, so the two never share a burst.
THEOREM BurstsFit == Spec => []BurstFits
<1>1. Init => BurstFits
  <2>1. Len(<<>>) =< 3
    OBVIOUS
  <2> QED
    BY <2>1 DEF Init, BurstFits
<1>2. CeilingDemoted /\ BurstFits /\ [Next]_vars => BurstFits'
  BY BurstInductive
<1> QED
  BY <1>1, <1>2, CeilingLow, PTL DEF Spec

-----------------------------------------------------------------------------
(* Faults and extractions.                                                  *)

\* An extraction is never requested together with a drive, whichever commands
\* the users interleave.
THEOREM MpetNeverDrives == Spec => []MpetExcludesDrive
<1>1. Init => MpetExcludesDrive
  BY DEF Init, MpetExcludesDrive
<1>2. MpetExcludesDrive /\ [Next]_vars => MpetExcludesDrive'
  <2> SUFFICES ASSUME MpetExcludesDrive, [Next]_vars PROVE MpetExcludesDrive'
    OBVIOUS
  <2>1. ASSUME NEW dt \in Elapsed, NEW in \in Inputs, Poll(dt, in)
        PROVE  MpetExcludesDrive'
    <3>1. (on' => on) /\ (mpetRequested' => mpetRequested)
      BY <2>1 DEF Poll, PollIdle, BeginStart, BeginMpet, PollFault, PollExternalFault,
                  PollUnpermitted, PollDisarm, PollSafeBoot, PollStarting, PollRunning,
                  PollWindingDown, PollMpetArming, PollMpet, EnterFault
    <3> QED
      BY <3>1 DEF MpetExcludesDrive
  <2>2. CASE Command
    BY <2>2 DEF Command, Off, Disarm, On, SetSpeed, SetDirection, StartMpet, AbortMpet,
                SetReleasedMin, MpetExcludesDrive
  <2>3. CASE UNCHANGED vars
    BY <2>3 DEF vars, MpetExcludesDrive
  <2> QED
    BY <2>1, <2>2, <2>3 DEF Next, PollSome
<1> QED
  BY <1>1, <1>2, PTL DEF Spec

NoAckInAdvance == faultAck => state = "Fault"

\* A poll outside Fault leaves faultAck alone or clears it, and a poll in Fault
\* spends it.
LEMMA PollAck ==
  ASSUME NEW dt \in Elapsed, NEW in \in Inputs, Poll(dt, in), NoAckInAdvance
  PROVE  ~faultAck' /\ (state = "Fault" /\ state' # "Fault" => faultAck /\ state' = "SafeBoot")
<1>1. CASE PollFault(dt)
  BY <1>1 DEF PollFault, Enter, Stay
<1>2. CASE state # "Fault"
  <2>1. ~faultAck
    BY <1>2 DEF NoAckInAdvance
  <2> DEFINE Unacked == ~faultAck'
  <2>2. \A r, b, p, d : EnterFault(r, b, p, d) => Unacked
    BY DEF EnterFault
  <2>3. faultAck' = faultAck => Unacked
    BY <2>1
  <2> HIDE DEF Unacked
  <2>4. PollIdle(dt, in) => Unacked
    BY <2>2, <2>3 DEF PollIdle, BeginStart, BeginMpet
  <2>5. PollExternalFault(in) \/ PollUnpermitted(in) \/ PollDisarm(in) => Unacked
    BY <2>2, <2>3 DEF PollExternalFault, PollUnpermitted, PollDisarm
  <2>6. PollSafeBoot(dt, in) => Unacked
    BY <2>2, <2>3 DEF PollSafeBoot
  <2>7. PollStarting(dt, in) \/ PollMpetArming(dt, in) \/ PollMpet(dt, in) => Unacked
    BY <2>2, <2>3 DEF PollStarting, PollMpetArming, PollMpet
  <2>8. PollRunning(dt, in) \/ PollWindingDown(dt, in) => Unacked
    BY <2>2, <2>3 DEF PollRunning, PollWindingDown
  <2>9. ~PollFault(dt)
    BY <1>2 DEF PollFault
  <2>10. Unacked
    BY <2>4, <2>5, <2>6, <2>7, <2>8, <2>9 DEF Poll
  <2> QED
    BY <1>2, <2>10 DEF Unacked
<1>3. CASE state = "Fault"
  <2>1. ~Healthy(in)
    BY <1>3 DEF Healthy
  <2>2. PollFault(dt)
    <3>1. \A s : ~InState(s, in)
      BY <2>1 DEF InState
    <3> QED
      BY <1>3, <2>1, <3>1 DEF Poll, PollIdle, PollExternalFault, PollUnpermitted, PollDisarm,
                PollSafeBoot, PollStarting, PollRunning, PollWindingDown, PollMpetArming,
                PollMpet
  <2> QED
    BY <1>1, <2>2
<1> QED
  BY <1>2, <1>3

\* A command moves no state, and acknowledges a fault that is standing.
LEMMA CommandAck ==
  ASSUME Command, NoAckInAdvance
  PROVE  state' = state /\ (state # "Fault" => ~faultAck')
<1>1. state' = state
  BY DEF Command, Off, Disarm, On, SetSpeed, SetDirection, StartMpet, AbortMpet,
         SetReleasedMin, IntentOnly
<1>2. Acknowledge \/ faultAck' = faultAck
  BY DEF Command, Off, Disarm, On, SetSpeed, SetDirection, StartMpet, AbortMpet,
         SetReleasedMin
<1>3. ASSUME state # "Fault" PROVE ~faultAck'
  <2>1. ~faultAck
    BY <1>3 DEF NoAckInAdvance
  <2>2. Acknowledge => ~faultAck'
    BY <1>3, <2>1 DEF Acknowledge
  <2> QED
    BY <1>2, <2>1, <2>2
<1> QED
  BY <1>1, <1>3

\* A fault waits for a command that arrives after it, and leads to SafeBoot.
THEOREM FaultLatches == Spec => FaultLatched
<1>1. Init => NoAckInAdvance
  BY DEF Init, NoAckInAdvance
<1>2. NoAckInAdvance /\ [Next]_vars =>
        /\ NoAckInAdvance'
        /\ (state = "Fault" /\ state' # "Fault" => faultAck /\ state' = "SafeBoot")
  <2> SUFFICES ASSUME NoAckInAdvance, [Next]_vars
               PROVE  /\ NoAckInAdvance'
                      /\ (state = "Fault" /\ state' # "Fault" => faultAck /\ state' = "SafeBoot")
    OBVIOUS
  <2>1. ASSUME NEW dt \in Elapsed, NEW in \in Inputs, Poll(dt, in)
        PROVE  /\ NoAckInAdvance'
               /\ (state = "Fault" /\ state' # "Fault" => faultAck /\ state' = "SafeBoot")
    BY <2>1, PollAck DEF NoAckInAdvance
  <2>2. CASE Command
    BY <2>2, CommandAck DEF NoAckInAdvance
  <2>3. CASE UNCHANGED vars
    BY <2>3 DEF vars, NoAckInAdvance
  <2> QED
    BY <2>1, <2>2, <2>3 DEF Next, PollSome
<1>3. NoAckInAdvance /\ [Next]_vars =>
        [/\ state = "Fault" /\ state' # "Fault" => faultAck /\ state' = "SafeBoot"
         /\ state # "Fault" => ~faultAck']_vars
  <2> SUFFICES ASSUME NoAckInAdvance, Next
               PROVE  /\ state = "Fault" /\ state' # "Fault" => faultAck /\ state' = "SafeBoot"
                      /\ state # "Fault" => ~faultAck'
    BY DEF vars
  <2>1. CASE PollSome
    BY <2>1, PollAck DEF PollSome
  <2>2. CASE Command
    BY <2>2, CommandAck DEF NoAckInAdvance
  <2> QED
    BY <2>1, <2>2 DEF Next
<1> QED
  BY <1>1, <1>2, <1>3, PTL DEF Spec, FaultLatched
-----------------------------------------------------------------------------
\* What the supervisor remembers never contradicts itself.
THEOREM Consistency == Spec => []Consistent
  BY TypeCorrect, DutyInStep, CeilingLow, MpetNeverDrives, PTL DEF Consistent

-----------------------------------------------------------------------------
(* Which actions a burst holds.                                             *)

LEMMA JoinedRange ==
  ASSUME NEW s \in Seq(Action), NEW t \in Seq(Action)
  PROVE  Range(s \o t) = Range(s) \cup Range(t)
<1>1. Len(s) \in Nat /\ Len(t) \in Nat /\ DOMAIN s = 1..Len(s) /\ DOMAIN t = 1..Len(t)
  OBVIOUS
<1>2. DOMAIN (s \o t) = 1..(Len(s) + Len(t))
  OBVIOUS
<1>3. \A i \in 1..Len(s) : (s \o t)[i] = s[i]
  OBVIOUS
<1>4. \A i \in 1..Len(t) : (s \o t)[Len(s) + i] = t[i]
  OBVIOUS
<1>5. ASSUME NEW x \in Range(s \o t) PROVE x \in Range(s) \cup Range(t)
  <2>1. PICK i \in 1..(Len(s) + Len(t)) : x = (s \o t)[i]
    BY <1>2, <1>5 DEF Range
  <2>2. CASE i =< Len(s)
    BY <1>1, <1>3, <2>1, <2>2 DEF Range
  <2>3. CASE i > Len(s)
    <3>1. i - Len(s) \in 1..Len(t) /\ Len(s) + (i - Len(s)) = i
      BY <1>1, <2>3
    <3>2. x = t[i - Len(s)]
      BY <1>4, <2>1, <3>1
    <3> QED
      BY <1>1, <3>1, <3>2 DEF Range
  <2> QED
    BY <1>1, <2>2, <2>3
<1>6. ASSUME NEW i \in 1..Len(s) PROVE s[i] \in Range(s \o t)
  <2>1. i \in 1..(Len(s) + Len(t))
    BY <1>1
  <2> QED
    BY <1>2, <1>3, <2>1 DEF Range
<1>7. ASSUME NEW i \in 1..Len(t) PROVE t[i] \in Range(s \o t)
  <2>1. Len(s) + i \in 1..(Len(s) + Len(t))
    BY <1>1
  <2> QED
    BY <1>2, <1>4, <2>1 DEF Range
<1>8. Range(s) \cup Range(t) \subseteq Range(s \o t)
  BY <1>1, <1>6, <1>7 DEF Range
<1> QED
  BY <1>5, <1>8

LEMMA ShortRange ==
  /\ Range(<<>>) = {}
  /\ \A a : Range(<<a>>) = {a}
  /\ \A c, a : Range(If(c, a)) = IF c THEN {a} ELSE {}
<1>1. Range(<<>>) = {}
  BY DEF Range
<1>2. ASSUME NEW a PROVE Range(<<a>>) = {a}
  BY DEF Range
<1> QED
  BY <1>1, <1>2 DEF If

LEMMA PartsRange ==
  /\ Revoking \in Seq(Action) /\ Range(Revoking) = {"ClearPermission"}
  /\ AbortIfMpet \in Seq(Action)
  /\ Range(AbortIfMpet) = IF state \in MpetStates THEN {"AbortMpet"} ELSE {}
  /\ \A p : /\ Demote(p) \in Seq(Action)
            /\ Range(Demote(p)) = IF p # "Acquisition" THEN {"SetCurrentProfile"} ELSE {}
  /\ \A d, e : /\ EmitDuty(d, e) \in Seq(Action)
               /\ Range(EmitDuty(d, e)) = IF d # e THEN {"SetSpeedDuty"} ELSE {}
<1>1. /\ "ClearPermission" \in Action /\ "AbortMpet" \in Action
      /\ "SetCurrentProfile" \in Action /\ "SetSpeedDuty" \in Action
  BY DEF Action
<1>2. Revoking \in Seq(Action) /\ Range(Revoking) = {"ClearPermission"}
  BY <1>1, ShortType, ShortRange DEF Revoking
<1>3. /\ AbortIfMpet \in Seq(Action)
      /\ Range(AbortIfMpet) = IF state \in MpetStates THEN {"AbortMpet"} ELSE {}
  BY <1>1, IfType, ShortRange DEF AbortIfMpet
<1>4. ASSUME NEW p
      PROVE  /\ Demote(p) \in Seq(Action)
             /\ Range(Demote(p)) = IF p # "Acquisition" THEN {"SetCurrentProfile"} ELSE {}
  BY <1>1, IfType, ShortRange DEF Demote
<1>5. ASSUME NEW d, NEW e
      PROVE  /\ EmitDuty(d, e) \in Seq(Action)
             /\ Range(EmitDuty(d, e)) = IF d # e THEN {"SetSpeedDuty"} ELSE {}
  BY <1>1, IfType, ShortRange DEF EmitDuty
<1> QED
  BY <1>2, <1>3, <1>4, <1>5

\* The bursts a handler builds of two and of three parts.
LEMMA JoinedParts ==
  ASSUME NEW r \in Seq(Action), NEW s \in Seq(Action), NEW t \in Seq(Action)
  PROVE  /\ r \o s \in Seq(Action) /\ Range(r \o s) = Range(r) \cup Range(s)
         /\ r \o s \o t \in Seq(Action)
         /\ Range(r \o s \o t) = Range(r) \cup Range(s) \cup Range(t)
<1>1. r \o s \in Seq(Action) /\ Range(r \o s) = Range(r) \cup Range(s)
  BY BurstType, JoinedRange
<1>2. r \o s \o t \in Seq(Action) /\ Range(r \o s \o t) = Range(r \o s) \cup Range(t)
  BY <1>1, BurstType, JoinedRange
<1> QED
  BY <1>1, <1>2

\* What a fault leaves in the buffer.
LEMMA FaultRange ==
  ASSUME NEW reason, NEW before \in Seq(Action), NEW p, NEW d,
         EnterFault(reason, before, p, d)
  PROVE  Range(actions') = Range(before) \cup {"ClearPermission"}
                             \cup (IF p # "Acquisition" THEN {"SetCurrentProfile"} ELSE {})
                             \cup (IF state \in MpetStates THEN {"AbortMpet"} ELSE {})
                             \cup (IF d # 0 THEN {"SetSpeedDuty"} ELSE {})
<1>1. /\ before \o Revoking \in Seq(Action)
      /\ Range(before \o Revoking) = Range(before) \cup {"ClearPermission"}
  BY PartsRange, BurstType, JoinedRange
<1>2. /\ before \o Revoking \o Demote(p) \in Seq(Action)
      /\ Range(before \o Revoking \o Demote(p)) =
           Range(before \o Revoking) \cup Range(Demote(p))
  BY <1>1, PartsRange, BurstType, JoinedRange
<1>3. /\ before \o Revoking \o Demote(p) \o AbortIfMpet \in Seq(Action)
      /\ Range(before \o Revoking \o Demote(p) \o AbortIfMpet) =
           Range(before \o Revoking \o Demote(p)) \cup Range(AbortIfMpet)
  BY <1>2, PartsRange, BurstType, JoinedRange
<1>4. Range(before \o Revoking \o Demote(p) \o AbortIfMpet \o EmitDuty(d, 0)) =
        Range(before \o Revoking \o Demote(p) \o AbortIfMpet) \cup Range(EmitDuty(d, 0))
  BY <1>3, PartsRange, JoinedRange
<1> QED
  BY <1>1, <1>2, <1>3, <1>4, PartsRange DEF EnterFault

-----------------------------------------------------------------------------
(* What a poll tells its caller.                                            *)

\* A poll acknowledges nothing, asks for no extraction, goes on with one only
\* while it is wanted, and leaves a stopped fan of which nothing is wanted
\* stopped.
Tame ==
  /\ faultAck' => faultAck
  /\ mpetRequested' => mpetRequested
  /\ state' \in MpetStates => mpetRequested
  /\ state \notin Armed /\ (state = "IdleOff" => ~mpetRequested /\ ~on) => state' \notin Armed

\* An extraction is started on entering Mpet, and aborted on leaving it unless
\* the verdict is lost.
Extracts ==
  /\ state' = "Mpet" => mpetStarted'
  /\ "StartMpet" \in Range(actions') => state' = "Mpet"
  /\ state = "Mpet" => \/ state' = "Mpet"
                       \/ {"AbortMpet", "ClearPermission"} \subseteq Range(actions')
                       \/ state' = "SafeBoot" /\ ~Permits(config')

LEMMA FaultTame ==
  ASSUME NEW reason, NEW before, NEW p, NEW d, EnterFault(reason, before, p, d)
  PROVE  Tame
BY DEF EnterFault, Enter, Tame, MpetStates, Armed

LEMMA FaultExtracts ==
  ASSUME NEW reason, NEW before \in Seq(Action), NEW p, NEW d,
         EnterFault(reason, before, p, d), "StartMpet" \notin Range(before)
  PROVE  Extracts
<1>1. state' = "Fault"
  BY DEF EnterFault, Enter
<1>2. Range(actions') = Range(before) \cup {"ClearPermission"}
                           \cup (IF p # "Acquisition" THEN {"SetCurrentProfile"} ELSE {})
                           \cup (IF state \in MpetStates THEN {"AbortMpet"} ELSE {})
                           \cup (IF d # 0 THEN {"SetSpeedDuty"} ELSE {})
  BY FaultRange
<1>3. "StartMpet" \notin Range(actions')
  BY <1>2
<1>4. state = "Mpet" => {"AbortMpet", "ClearPermission"} \subseteq Range(actions')
  BY <1>2 DEF MpetStates
<1> QED
  BY <1>1, <1>3, <1>4 DEF Extracts

\* The handlers of the states in which no extraction is under way.
LEMMA QuietExtracts ==
  ASSUME state # "Mpet", state' # "Mpet", "StartMpet" \notin Range(actions')
  PROVE  Extracts
BY DEF Extracts

LEMMA RestingPolls ==
  ASSUME NEW dt, NEW in, config' = in.config,
         PollFault(dt) \/ PollUnpermitted(in) \/ PollDisarm(in)
  PROVE  Tame /\ Extracts
<1>1. CASE PollFault(dt)
  <2>1. Range(actions') \subseteq {"ClearMcfFault"}
    BY <1>1, ShortRange DEF PollFault
  <2>2. state = "Fault" /\ state' \in {"Fault", "SafeBoot"} /\ faultAck' = FALSE
        /\ mpetRequested' = mpetRequested
    BY <1>1 DEF PollFault, Enter, Stay
  <2> QED
    BY <2>1, <2>2, QuietExtracts DEF Tame, Armed, MpetStates
<1>2. CASE PollUnpermitted(in)
  <2>1. Range(actions') = Range(Revoking) \cup Range(Demote(profile)) \cup Range(EmitDuty(lastDuty, 0))
    BY <1>2, JoinedParts, PartsRange DEF PollUnpermitted
  <2>2. "StartMpet" \notin Range(actions')
    BY <2>1, PartsRange
  <2>3. state' = "SafeBoot" /\ ~Permits(config') /\ faultAck' = faultAck /\ mpetRequested' = FALSE
    BY <1>2 DEF PollUnpermitted, Unpermitted, Enter
  <2> QED
    BY <2>2, <2>3 DEF Tame, Extracts, Armed, MpetStates
<1>3. CASE PollDisarm(in)
  <2>1. /\ Revoking \o Demote(profile) \o AbortIfMpet \in Seq(Action)
        /\ Range(Revoking \o Demote(profile) \o AbortIfMpet) =
             Range(Revoking) \cup Range(Demote(profile)) \cup Range(AbortIfMpet)
    BY JoinedParts, PartsRange
  <2>2. Range(actions') = Range(Revoking \o Demote(profile) \o AbortIfMpet)
                            \cup Range(EmitDuty(lastDuty, 0))
    BY <1>3, <2>1, JoinedRange, PartsRange DEF PollDisarm
  <2>3. /\ "StartMpet" \notin Range(actions')
        /\ state = "Mpet" => {"AbortMpet", "ClearPermission"} \subseteq Range(actions')
    BY <2>1, <2>2, PartsRange DEF MpetStates
  <2>4. state' = "SafeBoot" /\ faultAck' = faultAck /\ mpetRequested' = FALSE
    BY <1>3 DEF PollDisarm, Enter
  <2> QED
    BY <2>3, <2>4 DEF Tame, Extracts, Armed, MpetStates
<1> QED
  BY <1>1, <1>2, <1>3

LEMMA PollSafeBootQuiet ==
  ASSUME NEW dt, NEW in, PollSafeBoot(dt, in)
  PROVE  Tame /\ Extracts
<1> DEFINE held == Older(since, dt, AGE_LIMIT)
<1>1. Demote(profile) \in Seq(Action) /\ "StartMpet" \notin Range(Demote(profile))
  BY PartsRange
<1>2. CASE SafeBootFault(held, in) # None
  <2>1. EnterFault(SafeBootFault(held, in), Demote(profile), "Acquisition", lastDuty)
    BY <1>2 DEF PollSafeBoot
  <2> QED
    BY <1>1, <2>1, FaultTame, FaultExtracts
<1>3. CASE SafeBootFault(held, in) = None
  <2>1. /\ state = "SafeBoot" /\ actions' = Demote(profile) /\ state' \in {"SafeBoot", "IdleOff"}
        /\ faultAck' = faultAck /\ (mpetRequested' => mpetRequested)
    BY <1>3 DEF PollSafeBoot, InState, Enter, Stay
  <2> QED
    BY <1>1, <2>1, QuietExtracts DEF Tame, Armed, MpetStates
<1> QED
  BY <1>2, <1>3

LEMMA PollIdleQuiet ==
  ASSUME NEW dt, NEW in, PollIdle(dt, in)
  PROVE  Tame /\ Extracts
<1> DEFINE pulse == <<"ArmPulse">>
           turn == If(direction # appliedDirection, "SetDirection")
<1>0. state = "IdleOff"
  BY DEF PollIdle, InState
<1>1. /\ pulse \in Seq(Action) /\ Range(pulse) = {"ArmPulse"}
      /\ turn \in Seq(Action) /\ Range(turn) \subseteq {"SetDirection"}
  <2>1. "ArmPulse" \in Action /\ "SetDirection" \in Action
    BY DEF Action
  <2> QED
    BY <2>1, ShortType, ShortRange, IfType
<1>2. "StartMpet" \notin Range(Demote(profile)) /\ "StartMpet" \notin Range(EmitDuty(lastDuty, 0))
  BY PartsRange
<1>3. "StartMpet" \notin Range(pulse) /\ "StartMpet" \notin Range(turn)
  <2> HIDE DEF pulse, turn
  <2> QED
    BY <1>1
<1>4. CASE mpetRequested /\ BeginMpet(in)
  <2>1. actions' = Demote(profile) \o EmitDuty(lastDuty, 0) \o pulse
    BY <1>4 DEF BeginMpet
  <2>2. Range(actions') = Range(Demote(profile)) \cup Range(EmitDuty(lastDuty, 0)) \cup Range(pulse)
    <3> HIDE DEF pulse
    <3> QED
      BY <1>1, <2>1, JoinedParts, PartsRange
  <2>3. "StartMpet" \notin Range(actions')
    <3> HIDE DEF pulse, turn
    <3> QED
      BY <1>2, <1>3, <2>2
  <2>4. state' = "MpetArming" /\ faultAck' = faultAck /\ mpetRequested' = mpetRequested
    BY <1>4 DEF BeginMpet, Enter
  <2> QED
    BY <1>0, <1>4, <2>3, <2>4, QuietExtracts DEF Tame
<1>5. CASE WantsOn /\ BeginStart
  <2>1. /\ turn \o Demote(profile) \o EmitDuty(lastDuty, 0) \in Seq(Action)
        /\ Range(turn \o Demote(profile) \o EmitDuty(lastDuty, 0)) =
             Range(turn) \cup Range(Demote(profile)) \cup Range(EmitDuty(lastDuty, 0))
    <3> HIDE DEF turn
    <3> QED
      BY <1>1, JoinedParts, PartsRange
  <2>2. actions' = turn \o Demote(profile) \o EmitDuty(lastDuty, 0) \o pulse
    BY <1>5 DEF BeginStart
  <2>3. Range(actions') = Range(turn \o Demote(profile) \o EmitDuty(lastDuty, 0)) \cup Range(pulse)
    <3> HIDE DEF turn, pulse
    <3> QED
      BY <1>1, <2>1, <2>2, JoinedRange
  <2>4. "StartMpet" \notin Range(actions')
    <3> HIDE DEF turn, pulse
    <3> QED
      BY <1>2, <1>3, <2>1, <2>3
  <2>5. state' = "Starting" /\ faultAck' = faultAck /\ mpetRequested' = mpetRequested
    BY <1>5 DEF BeginStart, Enter
  <2> QED
    BY <1>0, <1>5, <2>4, <2>5, QuietExtracts DEF Tame, MpetStates, WantsOn
<1>6. CASE EnterFault("NeverStopped", <<>>, profile, lastDuty)
  BY <1>6, ShortType, ShortRange, FaultTame, FaultExtracts
<1>7. CASE state' = state /\ actions' = <<>> /\ UNCHANGED <<faultAck, mpetRequested>>
  BY <1>0, <1>7, ShortRange, QuietExtracts DEF Tame, MpetStates
<1> QED
  BY <1>4, <1>5, <1>6, <1>7 DEF PollIdle, Stay

LEMMA PollDrivenQuiet ==
  ASSUME NEW dt, NEW in,
         PollStarting(dt, in) \/ PollRunning(dt, in) \/ PollWindingDown(dt, in)
  PROVE  Tame /\ Extracts
<1>1. ASSUME state \in {"Starting", "Running", "Stopping", "Reversing"},
             state' \notin MpetStates, UNCHANGED <<faultAck, mpetRequested>>,
             "StartMpet" \notin Range(actions')
      PROVE  Tame /\ Extracts
  BY <1>1, QuietExtracts DEF Tame, Armed, MpetStates
<1>2. CASE PollStarting(dt, in)
  <2> DEFINE elapsed == Older(since, dt, AGE_LIMIT)
             settled == elapsed >= ARM_SETTLE
             next == IF ~settled THEN ramp
                     ELSE IF ramp = 0 THEN releasedMin ELSE RampStep(ramp, speed, dt)
             duty == IF settled THEN DutyFor[next] ELSE lastDuty
  <2>0. state = "Starting"
    BY <1>2 DEF PollStarting, InState
  <2>1. CASE EnterFault("NoRotation", EmitDuty(lastDuty, duty), profile, duty)
    <3> HIDE DEF duty
    <3>1. EmitDuty(lastDuty, duty) \in Seq(Action) /\ "StartMpet" \notin Range(EmitDuty(lastDuty, duty))
      BY PartsRange
    <3> QED
      BY <2>1, <3>1, FaultTame, FaultExtracts
  <2>2. CASE ~WantsOn
    <3>1. Range(actions') = Range(Revoking) \cup Range(EmitDuty(lastDuty, 0))
      BY <1>2, <2>2, JoinedRange, PartsRange DEF PollStarting
    <3>2. "StartMpet" \notin Range(actions')
      BY <3>1, PartsRange
    <3>3. state' = "SafeBoot" /\ UNCHANGED <<faultAck, mpetRequested>>
      BY <1>2, <2>2 DEF PollStarting, Enter
    <3> QED
      BY <1>1, <2>0, <3>2, <3>3 DEF MpetStates
  <2>3. CASE /\ actions' = EmitDuty(lastDuty, duty) /\ UNCHANGED <<faultAck, mpetRequested>>
             /\ state' \in {"Running", state}
    <3>1. "StartMpet" \notin Range(actions')
      <4> HIDE DEF duty
      <4> QED
        BY <2>3, PartsRange
    <3> QED
      BY <1>1, <2>0, <2>3, <3>1 DEF MpetStates
  <2> QED
    BY <1>2, <2>1, <2>2, <2>3 DEF PollStarting, Enter, Stay
<1>3. CASE PollRunning(dt, in)
  <2> DEFINE next == RampStep(ramp, speed, dt)
             raise == If(PromotedProfile(dt, in)[1] # profile, "SetCurrentProfile")
  <2>0. state = "Running"
    BY <1>3 DEF PollRunning, InState
  <2>1. CASE HallImplausible'
    <3>1. EnterFault("HallImplausible", <<>>, profile, lastDuty)
      BY <1>3, <2>1 DEF PollRunning
    <3> QED
      BY <3>1, ShortType, ShortRange, FaultTame, FaultExtracts
  <2>2. CASE ~HallImplausible'
    <3>1. /\ UNCHANGED <<faultAck, mpetRequested>>
          /\ state' \in {"Reversing", "Stopping", "Running"}
          /\ actions' = <<>> \/ actions' = raise \o EmitDuty(lastDuty, DutyFor[next])
      BY <1>3, <2>0, <2>2 DEF PollRunning, Enter, Stay
    <3>2. raise \in Seq(Action) /\ Range(raise) \subseteq {"SetCurrentProfile"}
      <4>1. "SetCurrentProfile" \in Action
        BY DEF Action
      <4> QED
        BY <4>1, IfType, ShortRange
    <3>3. "StartMpet" \notin Range(raise \o EmitDuty(lastDuty, DutyFor[next]))
      <4> HIDE DEF raise, next
      <4> QED
        BY <3>2, JoinedRange, PartsRange
    <3> QED
      BY <1>1, <2>0, <3>1, <3>3, ShortRange DEF MpetStates
  <2> QED
    BY <2>1, <2>2
<1>4. CASE PollWindingDown(dt, in)
  <2> DEFINE next == IF ramp > releasedMin THEN RampStep(ramp, releasedMin, dt) ELSE 0
             duty == IF ramp = 0 THEN lastDuty ELSE DutyFor[next]
  <2>1. /\ state \in {"Stopping", "Reversing"} /\ UNCHANGED <<faultAck, mpetRequested>>
        /\ state' \in {"Running", "SafeBoot", state}
        /\ actions' \in {<<>>, EmitDuty(lastDuty, duty),
                         EmitDuty(lastDuty, duty) \o Revoking \o Demote(profile)}
    BY <1>4 DEF PollWindingDown, InState, Enter, Stay
  <2>2. "StartMpet" \notin Range(actions')
    <3> HIDE DEF duty
    <3>1. Range(EmitDuty(lastDuty, duty) \o Revoking \o Demote(profile)) =
            Range(EmitDuty(lastDuty, duty)) \cup Range(Revoking) \cup Range(Demote(profile))
      BY JoinedParts, PartsRange
    <3>2. \/ Range(actions') = {}
          \/ Range(actions') = Range(EmitDuty(lastDuty, duty))
          \/ Range(actions') = Range(EmitDuty(lastDuty, duty)) \cup Range(Revoking)
                                 \cup Range(Demote(profile))
      BY <2>1, <3>1, ShortRange
    <3> QED
      BY <3>2, PartsRange
  <2> QED
    BY <1>1, <2>1, <2>2 DEF MpetStates
<1> QED
  BY <1>2, <1>3, <1>4

LEMMA PollMpetsExtract ==
  ASSUME state = "Mpet" => mpetStarted, NEW dt, NEW in,
         PollMpetArming(dt, in) \/ PollMpet(dt, in)
  PROVE  Tame /\ Extracts
<1>1. CASE PollMpetArming(dt, in)
  <2>1. /\ state = "MpetArming" /\ UNCHANGED <<faultAck, mpetRequested>>
        /\ \/ state' = "SafeBoot" /\ actions' = Revoking
           \/ mpetRequested /\ state' = "Mpet" /\ mpetStarted' = TRUE
           \/ mpetRequested /\ state' = state /\ actions' = <<>>
    BY <1>1 DEF PollMpetArming, InState, Enter, Stay
  <2>2. "StartMpet" \notin Range(Revoking) /\ "StartMpet" \notin Range(<<>>)
    BY PartsRange, ShortRange
  <2> QED
    BY <2>1, <2>2 DEF Tame, Extracts, Armed, MpetStates
<1>2. CASE PollMpet(dt, in)
  <2>0. state = "Mpet" /\ mpetStarted
    BY <1>2 DEF PollMpet, InState
  <2>1. CASE Older(since, dt, AGE_LIMIT) >= MPET_TIMEOUT
    <3>1. EnterFault("MpetTimedOut", <<>>, profile, lastDuty)
      BY <1>2, <2>1 DEF PollMpet
    <3> QED
      BY <3>1, ShortType, ShortRange, FaultTame, FaultExtracts
  <2>2. CASE ~(Older(since, dt, AGE_LIMIT) >= MPET_TIMEOUT) /\ mpetRequested
    <3>1. /\ state' = state /\ mpetStarted' = mpetStarted /\ actions' = <<>>
          /\ UNCHANGED <<faultAck, mpetRequested>>
      BY <1>2, <2>2 DEF PollMpet, Stay
    <3> QED
      BY <2>0, <2>2, <3>1, ShortRange DEF Tame, Extracts, Armed
  <2>3. CASE ~(Older(since, dt, AGE_LIMIT) >= MPET_TIMEOUT) /\ ~mpetRequested
    <3>1. /\ state' = "SafeBoot" /\ actions' = If(mpetStarted, "AbortMpet") \o Revoking
          /\ UNCHANGED <<faultAck, mpetRequested>>
      BY <1>2, <2>3 DEF PollMpet, Enter
    <3>2. /\ If(mpetStarted, "AbortMpet") \in Seq(Action)
          /\ Range(If(mpetStarted, "AbortMpet")) = {"AbortMpet"}
      <4>1. "AbortMpet" \in Action
        BY DEF Action
      <4> QED
        BY <2>0, <4>1, IfType, ShortRange
    <3>3. Range(actions') = {"AbortMpet", "ClearPermission"}
      BY <3>1, <3>2, JoinedRange, PartsRange
    <3> QED
      BY <2>0, <3>1, <3>3 DEF Tame, Extracts, Armed, MpetStates
  <2> QED
    BY <2>1, <2>2, <2>3
<1> QED
  BY <1>1, <1>2

LEMMA PollTames ==
  ASSUME state = "Mpet" => mpetStarted, NEW dt, NEW in, Poll(dt, in)
  PROVE  Tame /\ Extracts
<1>1. config' = in.config
  BY DEF Poll, Observe
<1>2. CASE PollExternalFault(in)
  BY <1>2, ShortType, ShortRange, FaultTame, FaultExtracts DEF PollExternalFault
<1> QED
  BY <1>1, <1>2, RestingPolls, PollSafeBootQuiet, PollIdleQuiet, PollDrivenQuiet, PollMpetsExtract
  DEF Poll

-----------------------------------------------------------------------------
\* A command leaves the state and what is known of the extraction alone.
LEMMA CommandKeeps ==
  ASSUME Command \/ UNCHANGED vars
  PROVE  UNCHANGED <<state, mpetStarted>>
BY DEF Command, Off, Disarm, On, SetSpeed, SetDirection, StartMpet, AbortMpet, SetReleasedMin,
  IntentOnly, vars

StartedInMpet == state = "Mpet" => mpetStarted

\* Whatever ends an extraction, short of a lost verdict, sends the abort and
\* the revocation: the poll cannot forget that it was started.
THEOREM ExtractionsAborted == Spec => MpetAborted
<1>1. Init => StartedInMpet
  BY DEF Init, StartedInMpet
<1>2. StartedInMpet /\ [Next]_vars =>
        /\ StartedInMpet'
        /\ [state = "Mpet" /\ state' # "Mpet" /\ Permits(config') =>
              {"AbortMpet", "ClearPermission"} \subseteq Range(actions')]_vars
  <2> SUFFICES ASSUME StartedInMpet, [Next]_vars
               PROVE  /\ StartedInMpet'
                      /\ state = "Mpet" /\ state' # "Mpet" /\ Permits(config') =>
                           {"AbortMpet", "ClearPermission"} \subseteq Range(actions')
    OBVIOUS
  <2>1. ASSUME NEW dt \in Elapsed, NEW in \in Inputs, Poll(dt, in) PROVE Extracts
    BY <2>1, PollTames DEF StartedInMpet
  <2>2. CASE Command \/ UNCHANGED vars
    BY <2>2, CommandKeeps DEF StartedInMpet
  <2> QED
    BY <2>1, <2>2 DEF Next, PollSome, Extracts, StartedInMpet
<1> QED
  BY <1>1, <1>2, PTL DEF Spec, MpetAborted
=============================================================================
