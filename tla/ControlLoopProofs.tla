-------------------------- MODULE ControlLoopProofs --------------------------
(***************************************************************************)
(* Theorems about the control loop, for every value of its constants.      *)
(*                                                                         *)
(* First of the loop over its board (FanControl): firmware, latch and pins *)
(* agree, the drive is armed only at rest, and the loop implements         *)
(* DrivePermission.  Then of the loop among the tasks that command it      *)
(* (ControlLoop): queues of any length, any inputs, any commands.  Nothing *)
(* of the first part is used in the second.                                *)
(***************************************************************************)
EXTENDS FanControl, ControlLoop, SupervisorProofs

-----------------------------------------------------------------------------
(* The control loop only adds a board: what was proved of the supervisor    *)
(* alone holds of it.                                                       *)

LEMMA TickPolls == [FanNext]_fanVars => [Next]_vars
<1>1. Tick => PollSome
  BY DEF Tick, PollSome
<1>2. HardwareTrip => UNCHANGED vars
  BY DEF HardwareTrip
<1> QED
  BY <1>1, <1>2 DEF FanNext, UserCommand, Next, fanVars

LEMMA FanSupervised == FanSpec => [](TypeOK /\ DutyFollowsRamp)
<1>1. FanInit => Init
  BY DEF FanInit
<1>2. FanSpec => Spec
  BY <1>1, TickPolls, PTL DEF FanSpec, Spec
<1> QED
  BY <1>2, TypeCorrect, DutyInStep, PTL

-----------------------------------------------------------------------------
(* What one poll may do to the board, in terms of the burst it returns.     *)

\* An action is left out only when its value is unchanged; permission is asked
\* for at rest only, and given back on every way out of the armed states.
BurstTells ==
  /\ lastDuty' # lastDuty => "SetSpeedDuty" \in Range(actions')
  /\ profile' # profile => "SetCurrentProfile" \in Range(actions')
  /\ appliedDirection' # appliedDirection =>
       {"SetDirection", "ArmPulse"} \subseteq Range(actions')
  /\ state \in Armed /\ state' \notin Armed => "ClearPermission" \in Range(actions')
  /\ state \notin Armed /\ state' \in Armed => "ArmPulse" \in Range(actions')
  /\ "ClearPermission" \in Range(actions') => state' \notin Armed
  /\ "ArmPulse" \in Range(actions') =>
       /\ state = "IdleOff" /\ state' \in Armed
       /\ IsQuiet' /\ lastDuty' = 0 /\ profile' = "Acquisition"

\* How a poll comes to an unarmed state that a start is armed from, and what it
\* has seen when it stays in an armed one.
Waits(dt) ==
  /\ state' = "IdleOff" =>
       /\ "ClearPermission" \notin Range(actions')
       /\ \/ state = "IdleOff"
          \/ state = "SafeBoot" /\ ~(Older(since, dt, AGE_LIMIT) < SAFE_BOOT_HOLD)
  /\ state' = "SafeBoot" =>
       \/ since' = 0
       \/ /\ state = "SafeBoot" /\ since' = Older(since, dt, AGE_LIMIT)
          /\ "ClearPermission" \notin Range(actions')
  /\ state' \in Armed => Permits(config') /\ busFailures' < BUS_FAILURES_BEFORE_FAULT

\* A fault revokes permission, whatever stood in the burst before it.
LEMMA FaultTells ==
  ASSUME NEW reason, NEW before \in Seq(Action), NEW p, NEW d,
         EnterFault(reason, before, p, d),
         {"ArmPulse"} \cap Range(before) = {},
         lastDuty # 0 => d # 0 \/ "SetSpeedDuty" \in Range(before),
         profile # "Acquisition" => p # "Acquisition" \/ "SetCurrentProfile" \in Range(before),
         NEW dt
  PROVE  BurstTells /\ Waits(dt)
<1>1. /\ state' = "Fault" /\ lastDuty' = 0 /\ profile' = "Acquisition"
      /\ appliedDirection' = appliedDirection /\ state' \notin Armed
  BY DEF EnterFault, Enter, Rest, LowCeiling, Armed
<1>0. Range(actions') = Range(before) \cup {"ClearPermission"}
                          \cup (IF p # "Acquisition" THEN {"SetCurrentProfile"} ELSE {})
                          \cup (IF state \in MpetStates THEN {"AbortMpet"} ELSE {})
                          \cup (IF d # 0 THEN {"SetSpeedDuty"} ELSE {})
  BY FaultRange
<1>2. "ClearPermission" \in Range(actions') /\ "ArmPulse" \notin Range(actions')
  BY <1>0
<1>3. /\ lastDuty # 0 => "SetSpeedDuty" \in Range(actions')
      /\ profile # "Acquisition" => "SetCurrentProfile" \in Range(actions')
  BY <1>0
<1> QED
  BY <1>1, <1>2, <1>3 DEF BurstTells, Waits

\* A handler of any other state has just seen a bus that answers and a verdict
\* that permits operation.
LEMMA HandlerSees ==
  ASSUME NEW dt, NEW in, NEW s, InState(s, in), s # "SafeBoot", Observe(dt, in),
         busFailures' \in Nat
  PROVE  Permits(config') /\ busFailures' < BUS_FAILURES_BEFORE_FAULT
<1>1. state # "SafeBoot"
  BY DEF InState
<1>2. McfFaultSource(in) = None /\ Permits(in.config)
  BY <1>1 DEF InState, Healthy, Unpermitted, ExternalFault
<1>3. ~(busFailures' >= BUS_FAILURES_BEFORE_FAULT)
  BY <1>2 DEF McfFaultSource, None
<1> QED
  BY <1>2, <1>3, InputAssumption DEF Observe

LEMMA PollFaultTells ==
  ASSUME DutyFollowsRamp, NEW dt, PollFault(dt)
  PROVE  BurstTells /\ Waits(dt)
<1>1. state = "Fault" /\ lastDuty = 0
  BY SpeedAssumption DEF PollFault, DutyFollowsRamp
<1>2. Range(actions') \subseteq {"ClearMcfFault"}
  BY ShortRange DEF PollFault
<1>3. /\ state' \in {"Fault", "SafeBoot"} /\ lastDuty' = 0
      /\ UNCHANGED <<profile, appliedDirection>>
      /\ state' = "SafeBoot" => since' = 0
  BY <1>1 DEF PollFault, Enter, Rest, Stay
<1> QED
  BY <1>1, <1>2, <1>3 DEF BurstTells, Waits, Armed

\* Every way to SafeBoot that revokes permission and puts the caches back.
LEMMA RestTells ==
  ASSUME NEW dt, Enter("SafeBoot"), Rest, UNCHANGED appliedDirection,
         {"ClearPermission"} \subseteq Range(actions'), "ArmPulse" \notin Range(actions'),
         lastDuty # 0 => "SetSpeedDuty" \in Range(actions'),
         profile' # profile => "SetCurrentProfile" \in Range(actions')
  PROVE  BurstTells /\ Waits(dt)
<1>1. state' = "SafeBoot" /\ since' = 0 /\ lastDuty' = 0
  BY DEF Enter, Rest
<1> QED
  BY <1>1 DEF BurstTells, Waits, Armed

LEMMA PollUnpermittedTells ==
  ASSUME NEW dt, NEW in, PollUnpermitted(in)
  PROVE  BurstTells /\ Waits(dt)
<1>1. Range(actions') = Range(Revoking) \cup Range(Demote(profile)) \cup Range(EmitDuty(lastDuty, 0))
  BY JoinedParts, PartsRange DEF PollUnpermitted
<1>2. /\ {"ClearPermission"} \subseteq Range(actions') /\ "ArmPulse" \notin Range(actions')
      /\ lastDuty # 0 => "SetSpeedDuty" \in Range(actions')
      /\ profile # "Acquisition" => "SetCurrentProfile" \in Range(actions')
  BY <1>1, PartsRange
<1> QED
  BY <1>2, RestTells DEF PollUnpermitted, LowCeiling

LEMMA PollDisarmTells ==
  ASSUME NEW dt, NEW in, PollDisarm(in)
  PROVE  BurstTells /\ Waits(dt)
<1>1. /\ Revoking \o Demote(profile) \o AbortIfMpet \in Seq(Action)
      /\ Range(Revoking \o Demote(profile) \o AbortIfMpet) =
           Range(Revoking) \cup Range(Demote(profile)) \cup Range(AbortIfMpet)
  BY JoinedParts, PartsRange
<1>2. Range(actions') = Range(Revoking \o Demote(profile) \o AbortIfMpet)
                          \cup Range(EmitDuty(lastDuty, 0))
  BY <1>1, JoinedRange, PartsRange DEF PollDisarm
<1>3. /\ {"ClearPermission"} \subseteq Range(actions') /\ "ArmPulse" \notin Range(actions')
      /\ lastDuty # 0 => "SetSpeedDuty" \in Range(actions')
      /\ profile # "Acquisition" => "SetCurrentProfile" \in Range(actions')
  BY <1>1, <1>2, PartsRange
<1> QED
  BY <1>3, RestTells DEF PollDisarm, LowCeiling

LEMMA PollSafeBootTells ==
  ASSUME DutyFollowsRamp, NEW dt, NEW in, PollSafeBoot(dt, in)
  PROVE  BurstTells /\ Waits(dt)
<1> DEFINE held == Older(since, dt, AGE_LIMIT)
<1>1. Range(Demote(profile)) = IF profile # "Acquisition" THEN {"SetCurrentProfile"} ELSE {}
  BY PartsRange
<1>2. CASE SafeBootFault(held, in) # None
  <2>1. EnterFault(SafeBootFault(held, in), Demote(profile), "Acquisition", lastDuty)
    BY <1>2 DEF PollSafeBoot
  <2>2. Demote(profile) \in Seq(Action) /\ {"ArmPulse"} \cap Range(Demote(profile)) = {}
    BY PartsRange
  <2> QED
    BY <1>1, <2>1, <2>2, FaultTells
<1>3. CASE SafeBootFault(held, in) = None
  <2>1. /\ state = "SafeBoot" /\ actions' = Demote(profile) /\ profile' = "Acquisition"
        /\ UNCHANGED <<lastDuty, appliedDirection>>
    BY <1>3 DEF PollSafeBoot, InState, LowCeiling
  <2>2. CASE Bootable(held, in)
    <3>1. state' = "IdleOff"
      BY <1>3, <2>2 DEF PollSafeBoot, Enter
    <3>2. ~(held < SAFE_BOOT_HOLD)
      BY <2>2 DEF Bootable, Holding
    <3> QED
      BY <1>1, <2>1, <3>1, <3>2 DEF BurstTells, Waits, Armed
  <2>3. CASE ~Bootable(held, in)
    <3>1. state' = "SafeBoot" /\ since' = held
      BY <1>3, <2>1, <2>3 DEF PollSafeBoot, Stay
    <3> QED
      BY <1>1, <2>1, <3>1 DEF BurstTells, Waits, Armed
  <2> QED
    BY <2>2, <2>3
<1> QED
  BY <1>2, <1>3

LEMMA PollIdleTells ==
  ASSUME DutyFollowsRamp, NEW dt, NEW in, PollIdle(dt, in), Observe(dt, in), busFailures' \in Nat
  PROVE  BurstTells /\ Waits(dt)
<1>0. /\ state = "IdleOff" /\ lastDuty = 0
      /\ Permits(config') /\ busFailures' < BUS_FAILURES_BEFORE_FAULT
  <2>1. InState("IdleOff", in)
    BY DEF PollIdle
  <2>2. Permits(config') /\ busFailures' < BUS_FAILURES_BEFORE_FAULT
    BY <2>1, HandlerSees
  <2> QED
    BY <2>1, <2>2, SpeedAssumption DEF InState, DutyFollowsRamp
<1> DEFINE pulse == <<"ArmPulse">>
           turn == If(direction # appliedDirection, "SetDirection")
<1>1. /\ pulse \in Seq(Action) /\ Range(pulse) = {"ArmPulse"}
      /\ turn \in Seq(Action)
      /\ Range(turn) = IF direction # appliedDirection THEN {"SetDirection"} ELSE {}
  <2>1. "ArmPulse" \in Action /\ "SetDirection" \in Action
    BY DEF Action
  <2> QED
    BY <2>1, ShortType, ShortRange, IfType
<1>2. CASE IsQuiet' /\ BeginMpet(in)
  <2>1. actions' = Demote(profile) \o EmitDuty(lastDuty, 0) \o pulse
    BY <1>2 DEF BeginMpet
  <2>2. Range(actions') = Range(Demote(profile)) \cup Range(EmitDuty(lastDuty, 0)) \cup Range(pulse)
    <3> HIDE DEF pulse
    <3> QED
      BY <1>1, <2>1, JoinedParts, PartsRange
  <2>3. /\ "ArmPulse" \in Range(actions') /\ "ClearPermission" \notin Range(actions')
        /\ profile # "Acquisition" => "SetCurrentProfile" \in Range(actions')
    BY <1>1, <2>2, PartsRange
  <2>4. /\ state' = "MpetArming" /\ profile' = "Acquisition" /\ lastDuty' = 0
        /\ appliedDirection' = appliedDirection
    BY <1>2 DEF BeginMpet, Enter, Rest, LowCeiling
  <2> QED
    BY <1>0, <1>2, <2>3, <2>4 DEF BurstTells, Waits, Armed
<1>3. CASE IsQuiet' /\ BeginStart
  <2>1. /\ turn \o Demote(profile) \o EmitDuty(lastDuty, 0) \in Seq(Action)
        /\ Range(turn \o Demote(profile) \o EmitDuty(lastDuty, 0)) =
             Range(turn) \cup Range(Demote(profile)) \cup Range(EmitDuty(lastDuty, 0))
    <3> HIDE DEF turn
    <3> QED
      BY <1>1, JoinedParts, PartsRange
  <2>2. actions' = turn \o Demote(profile) \o EmitDuty(lastDuty, 0) \o pulse
    BY <1>3 DEF BeginStart
  <2>3. Range(actions') = Range(turn \o Demote(profile) \o EmitDuty(lastDuty, 0)) \cup Range(pulse)
    <3> HIDE DEF turn, pulse
    <3> QED
      BY <1>1, <2>1, <2>2, JoinedRange
  <2>4. /\ "ArmPulse" \in Range(actions') /\ "ClearPermission" \notin Range(actions')
        /\ profile # "Acquisition" => "SetCurrentProfile" \in Range(actions')
        /\ direction # appliedDirection => "SetDirection" \in Range(actions')
    <3> HIDE DEF turn
    <3> QED
      BY <1>1, <2>1, <2>3, PartsRange
  <2>5. /\ state' = "Starting" /\ profile' = "Acquisition" /\ lastDuty' = 0
        /\ appliedDirection' = direction
    BY <1>3 DEF BeginStart, Enter, Rest, LowCeiling
  <2> QED
    BY <1>0, <1>3, <2>4, <2>5 DEF BurstTells, Waits, Armed
<1>4. CASE EnterFault("NeverStopped", <<>>, profile, lastDuty)
  BY <1>4, ShortType, ShortRange, FaultTells
<1>5. CASE /\ state' = state /\ actions' = <<>>
           /\ UNCHANGED <<lastDuty, appliedDirection, profile>>
  <2>1. Range(actions') = {}
    BY <1>5, ShortRange
  <2> QED
    BY <1>0, <1>5, <2>1 DEF BurstTells, Waits, Armed
<1> QED
  BY <1>2, <1>3, <1>4, <1>5 DEF PollIdle, Stay

\* A handler that stays armed and emits no permission action only has to say
\* what it changes.
LEMMA ArmedTells ==
  ASSUME NEW dt, NEW in, NEW s \in Armed, InState(s, in), Observe(dt, in), busFailures' \in Nat,
         state' \in Armed, UNCHANGED appliedDirection,
         {"ClearPermission", "ArmPulse"} \cap Range(actions') = {},
         lastDuty' # lastDuty => "SetSpeedDuty" \in Range(actions'),
         profile' # profile => "SetCurrentProfile" \in Range(actions')
  PROVE  BurstTells /\ Waits(dt)
<1>1. state \in Armed /\ s # "SafeBoot"
  BY DEF InState, Armed
<1>2. Permits(config') /\ busFailures' < BUS_FAILURES_BEFORE_FAULT
  BY <1>1, HandlerSees
<1> QED
  BY <1>1, <1>2 DEF BurstTells, Waits, Armed

LEMMA PollStartingTells ==
  ASSUME NEW dt, NEW in, PollStarting(dt, in), Observe(dt, in), busFailures' \in Nat
  PROVE  BurstTells /\ Waits(dt)
<1> DEFINE elapsed == Older(since, dt, AGE_LIMIT)
           settled == elapsed >= ARM_SETTLE
           next == IF ~settled THEN ramp
                   ELSE IF ramp = 0 THEN releasedMin ELSE RampStep(ramp, speed, dt)
           duty == IF settled THEN DutyFor[next] ELSE lastDuty
<1>0. InState("Starting", in) /\ "Starting" \in Armed
  BY DEF PollStarting, Armed
<1>1. CASE ~WantsOn
  <2>1. Range(actions') = Range(Revoking) \cup Range(EmitDuty(lastDuty, 0))
    BY <1>1, JoinedRange, PartsRange DEF PollStarting
  <2>2. /\ {"ClearPermission"} \subseteq Range(actions') /\ "ArmPulse" \notin Range(actions')
        /\ lastDuty # 0 => "SetSpeedDuty" \in Range(actions')
    BY <2>1, PartsRange
  <2>3. Enter("SafeBoot") /\ Rest /\ UNCHANGED <<appliedDirection, profile>>
    BY <1>1 DEF PollStarting
  <2> QED
    BY <2>2, <2>3, RestTells
<1>2. CASE EnterFault("NoRotation", EmitDuty(lastDuty, duty), profile, duty)
  <2> HIDE DEF duty
  <2>1. EmitDuty(lastDuty, duty) \in Seq(Action)
    BY PartsRange
  <2>2. Range(EmitDuty(lastDuty, duty)) = IF lastDuty # duty THEN {"SetSpeedDuty"} ELSE {}
    BY PartsRange
  <2> QED
    BY <1>2, <2>1, <2>2, FaultTells
<1>3. CASE /\ lastDuty' = duty /\ actions' = EmitDuty(lastDuty, duty)
           /\ state' \in {"Starting", "Running"} /\ UNCHANGED <<appliedDirection, profile>>
  <2> HIDE DEF duty
  <2>1. Range(actions') = IF lastDuty # duty THEN {"SetSpeedDuty"} ELSE {}
    BY <1>3, PartsRange
  <2>2. state' \in Armed
    BY <1>3 DEF Armed
  <2> QED
    BY <1>0, <1>3, <2>1, <2>2, ArmedTells
<1>4. state = "Starting"
  BY <1>0 DEF InState
<1> QED
  BY <1>1, <1>2, <1>3, <1>4 DEF PollStarting, Enter, Stay

LEMMA PollRunningTells ==
  ASSUME NEW dt, NEW in, PollRunning(dt, in), Observe(dt, in), busFailures' \in Nat
  PROVE  BurstTells /\ Waits(dt)
<1> DEFINE next == RampStep(ramp, speed, dt)
           promoted == PromotedProfile(dt, in)
<1>0. InState("Running", in) /\ "Running" \in Armed /\ state = "Running"
  BY DEF PollRunning, Armed, InState
<1>1. CASE HallImplausible'
  <2>1. EnterFault("HallImplausible", <<>>, profile, lastDuty)
    BY <1>1 DEF PollRunning
  <2> QED
    BY <2>1, ShortType, ShortRange, FaultTells
<1>2. CASE /\ state' \in {"Reversing", "Stopping"} /\ actions' = <<>>
           /\ UNCHANGED <<appliedDirection, lastDuty, profile>>
  <2>1. Range(actions') = {} /\ state' \in Armed
    BY <1>2, ShortRange DEF Armed
  <2> QED
    BY <1>0, <1>2, <2>1, ArmedTells
<1>3. CASE /\ state' = state /\ UNCHANGED appliedDirection
           /\ profile' = promoted[1] /\ lastDuty' = DutyFor[next]
           /\ actions' = If(promoted[1] # profile, "SetCurrentProfile")
                           \o EmitDuty(lastDuty, DutyFor[next])
  <2> DEFINE p == promoted[1]
             d == DutyFor[next]
             change == If(p # profile, "SetCurrentProfile")
  <2>1. /\ profile' = p /\ lastDuty' = d /\ actions' = change \o EmitDuty(lastDuty, d)
        /\ state' = state /\ UNCHANGED appliedDirection
    BY <1>3
  <2> HIDE DEF p, d
  <2>2. /\ change \in Seq(Action)
        /\ Range(change) = IF p # profile THEN {"SetCurrentProfile"} ELSE {}
    <3>1. "SetCurrentProfile" \in Action
      BY DEF Action
    <3> QED
      BY <3>1, IfType, ShortRange
  <2>3. Range(actions') = Range(change) \cup Range(EmitDuty(lastDuty, d))
    <3> HIDE DEF change
    <3> QED
      BY <2>1, <2>2, JoinedRange, PartsRange
  <2>4. Range(EmitDuty(lastDuty, d)) = IF lastDuty # d THEN {"SetSpeedDuty"} ELSE {}
    BY PartsRange
  <2>5. /\ {"ClearPermission", "ArmPulse"} \cap Range(actions') = {}
        /\ lastDuty' # lastDuty => "SetSpeedDuty" \in Range(actions')
        /\ profile' # profile => "SetCurrentProfile" \in Range(actions')
    <3> HIDE DEF change
    <3> QED
      BY <2>1, <2>2, <2>3, <2>4
  <2> QED
    BY <1>0, <2>1, <2>5, ArmedTells
<1> QED
  BY <1>0, <1>1, <1>2, <1>3 DEF PollRunning, Enter, Stay

LEMMA PollWindingDownTells ==
  ASSUME DutyFollowsRamp, NEW dt, NEW in, PollWindingDown(dt, in), Observe(dt, in),
         busFailures' \in Nat
  PROVE  BurstTells /\ Waits(dt)
<1> DEFINE next == IF ramp > releasedMin THEN RampStep(ramp, releasedMin, dt) ELSE 0
           duty == IF ramp = 0 THEN lastDuty ELSE DutyFor[next]
           stopped == next = 0 /\ IsQuiet'
<1>0. PICK s \in {"Stopping", "Reversing"} : InState(s, in)
  BY DEF PollWindingDown
<1>1. s \in Armed /\ state = s
  BY <1>0 DEF InState, Armed
<1>2. UNCHANGED appliedDirection
  BY DEF PollWindingDown
<1>3. CASE Resumable
  <2>1. /\ state' = "Running" /\ actions' = <<>> /\ UNCHANGED <<lastDuty, profile>>
    BY <1>3 DEF PollWindingDown, Enter
  <2>2. Range(actions') = {} /\ state' \in Armed
    BY <2>1, ShortRange DEF Armed
  <2> QED
    BY <1>0, <1>1, <1>2, <2>1, <2>2, ArmedTells
<1>4. CASE ~Resumable /\ stopped
  <2>1. Enter("SafeBoot") /\ Rest /\ LowCeiling
    BY <1>4 DEF PollWindingDown
  <2>2. actions' = EmitDuty(lastDuty, duty) \o Revoking \o Demote(profile)
    BY <1>4 DEF PollWindingDown
  <2>3. duty = 0
    BY <1>4, SpeedAssumption DEF DutyFollowsRamp
  <2> HIDE DEF duty
  <2>4. Range(actions') =
          Range(EmitDuty(lastDuty, duty)) \cup Range(Revoking) \cup Range(Demote(profile))
    BY <2>2, JoinedParts, PartsRange
  <2>5. Range(EmitDuty(lastDuty, duty)) = IF lastDuty # 0 THEN {"SetSpeedDuty"} ELSE {}
    BY <2>3, PartsRange
  <2>6. /\ {"ClearPermission"} \subseteq Range(actions') /\ "ArmPulse" \notin Range(actions')
        /\ lastDuty # 0 => "SetSpeedDuty" \in Range(actions')
        /\ profile # "Acquisition" => "SetCurrentProfile" \in Range(actions')
    BY <2>4, <2>5, PartsRange
  <2> QED
    BY <1>2, <2>1, <2>6, RestTells DEF LowCeiling
<1>5. CASE ~Resumable /\ ~stopped
  <2>1. /\ state' = state /\ lastDuty' = duty /\ actions' = EmitDuty(lastDuty, duty)
        /\ UNCHANGED profile
    BY <1>5 DEF PollWindingDown, Stay
  <2> HIDE DEF duty
  <2>2. Range(actions') = IF lastDuty # duty THEN {"SetSpeedDuty"} ELSE {}
    BY <2>1, PartsRange
  <2> QED
    BY <1>0, <1>1, <1>2, <2>1, <2>2, ArmedTells
<1> QED
  BY <1>3, <1>4, <1>5

LEMMA PollMpetArmingTells ==
  ASSUME DutyFollowsRamp, NEW dt, NEW in, PollMpetArming(dt, in), Observe(dt, in),
         busFailures' \in Nat
  PROVE  BurstTells /\ Waits(dt)
<1>0. InState("MpetArming", in) /\ state = "MpetArming" /\ UNCHANGED <<appliedDirection, profile>>
  BY DEF PollMpetArming, InState
<1>1. lastDuty = 0
  BY <1>0, SpeedAssumption DEF DutyFollowsRamp
<1>2. CASE ~mpetRequested
  <2>1. Range(actions') = {"ClearPermission"} /\ Enter("SafeBoot") /\ Rest
    BY <1>2, PartsRange DEF PollMpetArming
  <2> QED
    BY <1>0, <1>1, <2>1, RestTells
<1>3. CASE mpetRequested
  <2>1. /\ actions' \in {<<"StartMpet">>, <<>>} /\ state' \in {"MpetArming", "Mpet"}
        /\ UNCHANGED lastDuty
    BY <1>0, <1>3 DEF PollMpetArming, Enter, Stay
  <2>2. Range(actions') \subseteq {"StartMpet"}
    BY <2>1, ShortRange
  <2> QED
    BY <1>0, <2>1, <2>2, ArmedTells DEF Armed
<1> QED
  BY <1>2, <1>3

LEMMA PollMpetTells ==
  ASSUME DutyFollowsRamp, NEW dt, NEW in, PollMpet(dt, in), Observe(dt, in),
         busFailures' \in Nat
  PROVE  BurstTells /\ Waits(dt)
<1>0. InState("Mpet", in) /\ state = "Mpet" /\ "Mpet" \in Armed
  BY DEF PollMpet, InState, Armed
<1>1. lastDuty = 0
  BY <1>0, SpeedAssumption DEF DutyFollowsRamp
<1>2. CASE EnterFault("MpetTimedOut", <<>>, profile, lastDuty)
  BY <1>2, ShortType, ShortRange, FaultTells
<1>3. CASE /\ state' = state /\ actions' = <<>>
           /\ UNCHANGED <<appliedDirection, lastDuty, profile>>
  <2>1. Range(actions') = {}
    BY <1>3, ShortRange
  <2> QED
    BY <1>0, <1>3, <2>1, ArmedTells
<1>4. CASE /\ Enter("SafeBoot") /\ Rest /\ UNCHANGED <<appliedDirection, profile>>
           /\ actions' = If(mpetStarted, "AbortMpet") \o Revoking
  <2> DEFINE abort == If(mpetStarted, "AbortMpet")
  <2>1. abort \in Seq(Action) /\ Range(abort) \subseteq {"AbortMpet"}
    <3>1. "AbortMpet" \in Action
      BY DEF Action
    <3> QED
      BY <3>1, IfType, ShortRange
  <2>2. actions' = abort \o Revoking
    BY <1>4
  <2> HIDE DEF abort
  <2>3. Range(actions') = Range(abort) \cup {"ClearPermission"}
    BY <2>1, <2>2, JoinedRange, PartsRange
  <2> QED
    BY <1>1, <1>4, <2>1, <2>3, RestTells
<1> QED
  BY <1>2, <1>3, <1>4 DEF PollMpet, Stay

\* Whatever branch a poll takes, its burst tells the board all that changed.
LEMMA PollTells ==
  ASSUME TypeOK, DutyFollowsRamp, NEW dt \in Elapsed, NEW in \in Inputs, Poll(dt, in)
  PROVE  BurstTells /\ Waits(dt)
<1>0. Observe(dt, in) /\ busFailures' \in Nat
  <2>1. Observe(dt, in) /\ dt \in Nat /\ in \in InputSnapshot
    BY TimingAssumption, InputAssumption DEF Poll
  <2> QED
    BY <2>1, ObserveType, InputAssumption DEF ObservedType
<1>1. CASE PollIdle(dt, in)
  BY <1>0, <1>1, PollIdleTells
<1>2. CASE PollFault(dt)
  BY <1>2, PollFaultTells
<1>3. CASE PollExternalFault(in)
  BY <1>3, ShortType, ShortRange, FaultTells DEF PollExternalFault
<1>4. CASE PollUnpermitted(in) \/ PollDisarm(in)
  BY <1>4, PollUnpermittedTells, PollDisarmTells
<1>5. CASE PollSafeBoot(dt, in)
  BY <1>5, PollSafeBootTells
<1>6. CASE PollStarting(dt, in) \/ PollRunning(dt, in)
  BY <1>0, <1>6, PollStartingTells, PollRunningTells
<1>7. CASE PollWindingDown(dt, in)
  BY <1>0, <1>7, PollWindingDownTells
<1>8. CASE PollMpetArming(dt, in) \/ PollMpet(dt, in)
  BY <1>0, <1>8, PollMpetArmingTells, PollMpetTells
<1> QED
  BY <1>1, <1>2, <1>3, <1>4, <1>5, <1>6, <1>7, <1>8 DEF Poll

LEMMA CommandTells ==
  ASSUME Command
  PROVE  UNCHANGED <<state, since, lastDuty, profile, appliedDirection, config, busFailures,
                     fgQuiet, hallQuiet>>
  BY DEF Command, Off, Disarm, On, SetSpeed, SetDirection, StartMpet, AbortMpet,
         SetReleasedMin, IntentOnly, observedVars

-----------------------------------------------------------------------------
(* The board.  The hold is paid before a start can be armed: what has been   *)
(* waited in SafeBoot was waited with permission off.                        *)

HoldPaid ==
  /\ state = "IdleOff" => sinceRevoke = SAFE_BOOT_HOLD
  /\ state = "SafeBoot" => sinceRevoke = SAFE_BOOT_HOLD \/ sinceRevoke >= since

BoardInv == BoardTypeOK /\ BoardInStep /\ PermissionEarned /\ HoldPaid

LEMMA FanInitBoard == FanInit => BoardInv
<1> SUFFICES ASSUME FanInit PROVE BoardInv
  OBVIOUS
<1>1. permission \in BOOLEAN /\ PermissionEarned
  BY DEF FanInit, PermissionEarned
<1>2. /\ speedRef \in Nat /\ dirPin \in Direction /\ ceiling \in CurrentProfile
      /\ sinceRevoke \in 0..SAFE_BOOT_HOLD
  BY TimingAssumption DEF FanInit, Direction, CurrentProfile
<1>3. BoardInStep /\ HoldPaid
  BY DEF FanInit, Init, BoardInStep, HoldPaid
<1> QED
  BY <1>1, <1>2, <1>3 DEF BoardInv, BoardTypeOK

\* The time since the last revocation goes on, or starts again.
LEMMA HeldOn ==
  ASSUME BoardTypeOK, NEW dt \in Elapsed, Apply(dt)
  PROVE  /\ sinceRevoke' \in 0..SAFE_BOOT_HOLD
         /\ "ClearPermission" \in Range(actions') => sinceRevoke' = 0 /\ ~permission'
         /\ "ClearPermission" \notin Range(actions') =>
              /\ sinceRevoke' >= sinceRevoke
              /\ sinceRevoke' = SAFE_BOOT_HOLD \/ sinceRevoke' = sinceRevoke + dt
<1> SAFE_BOOT_HOLD \in Nat /\ dt \in Nat /\ sinceRevoke \in 0..SAFE_BOOT_HOLD
  BY TimingAssumption DEF BoardTypeOK
<1>1. CASE "ClearPermission" \in Range(actions')
  BY <1>1 DEF Apply, Emitted
<1>2. CASE "ClearPermission" \notin Range(actions')
  <2>1. sinceRevoke' = Older(sinceRevoke, dt, SAFE_BOOT_HOLD)
    BY <1>2 DEF Apply, Emitted
  <2> QED
    BY <1>2, <2>1 DEF Older
<1> QED
  BY <1>1, <1>2

LEMMA TickInStep ==
  ASSUME TypeOK', BoardInStep, NEW dt, BurstTells, Apply(dt)
  PROVE  BoardInStep' /\ speedRef' \in Nat /\ dirPin' \in Direction /\ ceiling' \in CurrentProfile
<1>1. speedRef' = lastDuty'
  BY DEF BoardInStep, BurstTells, Apply, Emitted
<1>2. dirPin' = appliedDirection'
  BY DEF BoardInStep, BurstTells, Apply, Emitted
<1>3. ceiling' = profile'
  BY DEF BoardInStep, BurstTells, Apply, Emitted
<1> QED
  BY <1>1, <1>2, <1>3 DEF BoardInStep, TypeOK

LEMMA TickHolds ==
  ASSUME TypeOK, BoardTypeOK, HoldPaid, NEW dt \in Elapsed, Waits(dt), Apply(dt)
  PROVE  HoldPaid'
<1>0. /\ SAFE_BOOT_HOLD \in Nat /\ AGE_LIMIT \in Nat /\ dt \in Nat
      /\ sinceRevoke \in 0..SAFE_BOOT_HOLD /\ since \in 0..AGE_LIMIT
  BY TimingAssumption DEF TypeOK, BoardTypeOK
<1>1. Older(since, dt, AGE_LIMIT) \in Nat /\ Older(since, dt, AGE_LIMIT) =< since + dt
  BY <1>0 DEF Older
<1>2. ASSUME state' = "IdleOff" PROVE sinceRevoke' = SAFE_BOOT_HOLD
  <2>1. "ClearPermission" \notin Range(actions')
    BY <1>2 DEF Waits
  <2>2. /\ sinceRevoke' \in 0..SAFE_BOOT_HOLD /\ sinceRevoke' >= sinceRevoke
        /\ sinceRevoke' = SAFE_BOOT_HOLD \/ sinceRevoke' = sinceRevoke + dt
    BY <2>1, HeldOn
  <2>3. CASE state = "IdleOff"
    BY <1>0, <2>2, <2>3 DEF HoldPaid
  <2>4. CASE state = "SafeBoot" /\ ~(Older(since, dt, AGE_LIMIT) < SAFE_BOOT_HOLD)
    BY <1>0, <1>1, <2>2, <2>4 DEF HoldPaid
  <2> QED
    BY <1>2, <2>3, <2>4 DEF Waits
<1>3. ASSUME state' = "SafeBoot"
      PROVE  sinceRevoke' = SAFE_BOOT_HOLD \/ sinceRevoke' >= since'
  <2>1. CASE since' = 0
    BY <1>0, <2>1, HeldOn
  <2>2. CASE /\ state = "SafeBoot" /\ since' = Older(since, dt, AGE_LIMIT)
             /\ "ClearPermission" \notin Range(actions')
    <3>1. /\ sinceRevoke' \in 0..SAFE_BOOT_HOLD /\ sinceRevoke' >= sinceRevoke
          /\ sinceRevoke' = SAFE_BOOT_HOLD \/ sinceRevoke' = sinceRevoke + dt
      BY <2>2, HeldOn
    <3> QED
      BY <1>0, <1>1, <2>2, <3>1 DEF HoldPaid
  <2> QED
    BY <1>3, <2>1, <2>2 DEF Waits
<1> QED
  BY <1>2, <1>3 DEF HoldPaid

\* Permission comes with an arming pulse, stays while nobody revokes it, and is
\* revoked in every burst that leaves the armed states.
LEMMA TickEarns ==
  ASSUME BoardTypeOK, PermissionEarned, NEW dt \in Elapsed, BurstTells, Waits(dt), Apply(dt)
  PROVE  permission' \in BOOLEAN /\ PermissionEarned'
<1>1. permission' \in BOOLEAN
  BY DEF Apply, Emitted, BoardTypeOK
<1>2. ASSUME permission' PROVE state' \in Armed
  <2>1. "ClearPermission" \notin Range(actions')
    BY <1>2, HeldOn
  <2>2. "ArmPulse" \in Range(actions') \/ permission
    BY <1>2, <2>1 DEF Apply, Emitted
  <2>3. CASE "ArmPulse" \in Range(actions')
    BY <2>3 DEF BurstTells
  <2>4. CASE permission
    BY <2>1, <2>4 DEF BurstTells, PermissionEarned
  <2> QED
    BY <2>2, <2>3, <2>4
<1> QED
  BY <1>1, <1>2 DEF PermissionEarned, Waits

LEMMA BoardInductive ==
  ASSUME TypeOK, TypeOK', DutyFollowsRamp, BoardInv, [FanNext]_fanVars
  PROVE  BoardInv'
<1>1. CASE Tick
  <2>1. PICK dt \in Elapsed, in \in Inputs : Poll(dt, in) /\ Apply(dt)
    BY <1>1 DEF Tick
  <2>2. BurstTells /\ Waits(dt)
    BY <2>1, PollTells
  <2>3. BoardInStep' /\ speedRef' \in Nat /\ dirPin' \in Direction /\ ceiling' \in CurrentProfile
    BY <2>1, <2>2, TickInStep DEF BoardInv
  <2>4. HoldPaid' /\ permission' \in BOOLEAN /\ PermissionEarned'
    BY <2>1, <2>2, TickHolds, TickEarns DEF BoardInv
  <2>5. sinceRevoke' \in 0..SAFE_BOOT_HOLD
    BY <2>1, HeldOn DEF BoardInv
  <2> QED
    BY <2>3, <2>4, <2>5 DEF BoardInv, BoardTypeOK
<1>2. CASE UserCommand
  <2>1. UNCHANGED <<state, since, lastDuty, profile, appliedDirection, config, busFailures>>
        /\ UNCHANGED boardVars
    BY <1>2, CommandTells DEF UserCommand
  <2> QED
    BY <2>1 DEF BoardInv, BoardTypeOK, BoardInStep, PermissionEarned, HoldPaid, boardVars
<1>3. CASE HardwareTrip
  <2>1. state \notin {"IdleOff", "SafeBoot"}
    BY <1>3 DEF HardwareTrip, BoardInv, PermissionEarned, Armed
  <2>2. 0 \in 0..SAFE_BOOT_HOLD
    BY TimingAssumption
  <2> QED
    BY <1>3, <2>1, <2>2
    DEF HardwareTrip, vars, BoardInv, BoardTypeOK, BoardInStep, PermissionEarned, HoldPaid
<1>4. CASE UNCHANGED fanVars
  BY <1>4 DEF fanVars, vars, boardVars, BoardInv, BoardTypeOK, BoardInStep, PermissionEarned,
              HoldPaid
<1> QED
  BY <1>1, <1>2, <1>3, <1>4 DEF FanNext

LEMMA FanInvariant == FanSpec => [](TypeOK /\ DutyFollowsRamp /\ BoardInv)
<1>1. TypeOK /\ TypeOK' /\ DutyFollowsRamp /\ BoardInv /\ [FanNext]_fanVars => BoardInv'
  BY BoardInductive
<1> QED
  BY <1>1, FanInitBoard, FanSupervised, PTL DEF FanSpec

\* The pins and the ceiling are what the supervisor last meant, whatever its
\* bursts left out, and permission is held only where a motor is driven or wound
\* down under a verdict that permits it and a bus that answers.
THEOREM BoardAgrees == FanSpec => []BoardConsistent
<1>1. TypeOK /\ BoardInv => BoardConsistent
  BY DEF BoardInv, BoardConsistent, FanTypeOK
<1> QED
  BY <1>1, FanInvariant, PTL

-----------------------------------------------------------------------------
(* Arming and the contract.                                                 *)

\* A start or an extraction is armed from IdleOff: after the hold, at rest.
LEMMA Armable ==
  ASSUME TypeOK, TypeOK', DutyFollowsRamp, BoardInv, BoardInStep',
         NEW dt \in Elapsed, NEW in \in Inputs, Poll(dt, in), Apply(dt),
         "ArmPulse" \in Range(actions')
  PROVE  /\ ~permission /\ sinceRevoke' = SAFE_BOOT_HOLD
         /\ fgQuiet' = STOPPED_QUIET /\ hallQuiet' = STOPPED_QUIET
         /\ speedRef = 0 /\ speedRef' = 0 /\ ceiling' = "Acquisition"
<1>1. BurstTells
  BY PollTells
<1>2. /\ state = "IdleOff" /\ state' \in Armed
      /\ IsQuiet' /\ lastDuty' = 0 /\ profile' = "Acquisition"
      /\ "ClearPermission" \notin Range(actions')
  BY <1>1 DEF BurstTells
<1>3. ~permission
  BY <1>2 DEF BoardInv, PermissionEarned, Armed
<1>4. speedRef = 0
  BY <1>2, SpeedAssumption DEF BoardInv, BoardInStep, DutyFollowsRamp
<1>5. speedRef' = 0 /\ ceiling' = "Acquisition"
  BY <1>2 DEF BoardInStep
<1>6. sinceRevoke' = SAFE_BOOT_HOLD
  <2>1. sinceRevoke = SAFE_BOOT_HOLD /\ SAFE_BOOT_HOLD \in Nat
    BY <1>2, TimingAssumption DEF BoardInv, HoldPaid
  <2>2. sinceRevoke' \in 0..SAFE_BOOT_HOLD /\ sinceRevoke' >= sinceRevoke
    BY <1>2, HeldOn DEF BoardInv
  <2> QED
    BY <2>1, <2>2
<1>7. fgQuiet' = STOPPED_QUIET /\ hallQuiet' = STOPPED_QUIET
  <2>1. fgQuiet' \in 0..STOPPED_QUIET /\ hallQuiet' \in 0..STOPPED_QUIET /\ STOPPED_QUIET \in Nat
    BY TimingAssumption DEF TypeOK
  <2>2. fgQuiet' >= STOPPED_QUIET /\ hallQuiet' >= STOPPED_QUIET
    BY <1>2 DEF IsQuiet
  <2> QED
    BY <2>1, <2>2
<1> QED
  BY <1>3, <1>4, <1>5, <1>6, <1>7

\* A rising permission and a moving DIR pin need an arming pulse.
LEMMA PulseFirst ==
  ASSUME TypeOK, DutyFollowsRamp, BoardInStep, BoardInStep',
         NEW dt \in Elapsed, NEW in \in Inputs, Poll(dt, in), Apply(dt),
         (~permission /\ permission') \/ dirPin' # dirPin
  PROVE  "ArmPulse" \in Range(actions')
<1>1. CASE ~permission /\ permission'
  BY <1>1 DEF Apply, Emitted
<1>2. CASE dirPin' # dirPin
  <2>1. appliedDirection' # appliedDirection
    BY <1>2 DEF BoardInStep
  <2> QED
    BY <2>1, PollTells DEF BurstTells
<1> QED
  BY <1>1, <1>2

\* Permission rises, and DIR moves, only at rest, after the whole hold and under
\* the acquisition ceiling.
THEOREM ArmsAtRest == FanSpec => ArmedAtRest
<1>1. ASSUME TypeOK, TypeOK', DutyFollowsRamp, BoardInv, BoardInv', FanNext,
             (~permission /\ permission') \/ dirPin' # dirPin
      PROVE  /\ ~permission /\ sinceRevoke' = SAFE_BOOT_HOLD
             /\ fgQuiet' = STOPPED_QUIET /\ hallQuiet' = STOPPED_QUIET
             /\ speedRef = 0 /\ speedRef' = 0
             /\ ceiling' = "Acquisition"
  <2>1. ~UserCommand /\ ~HardwareTrip
    BY <1>1 DEF UserCommand, HardwareTrip, boardVars
  <2>2. PICK dt \in Elapsed, in \in Inputs : Poll(dt, in) /\ Apply(dt)
    BY <1>1, <2>1 DEF FanNext, Tick
  <2>3. BoardInStep /\ BoardInStep'
    BY <1>1 DEF BoardInv
  <2>4. "ArmPulse" \in Range(actions')
    BY <1>1, <2>2, <2>3, PulseFirst
  <2> QED
    BY <1>1, <2>2, <2>3, <2>4, Armable
<1>2. TypeOK /\ TypeOK' /\ DutyFollowsRamp /\ BoardInv /\ BoardInv' /\ [FanNext]_fanVars =>
        [(~permission /\ permission') \/ dirPin' # dirPin =>
            /\ ~permission /\ sinceRevoke' = SAFE_BOOT_HOLD
            /\ fgQuiet' = STOPPED_QUIET /\ hallQuiet' = STOPPED_QUIET
            /\ speedRef = 0 /\ speedRef' = 0
            /\ ceiling' = "Acquisition"]_fanVars
  BY <1>1
<1> QED
  BY <1>2, FanInvariant, PTL DEF FanSpec, ArmedAtRest

LEMMA Unpowered ==
  /\ DutyFollowsRamp /\ BoardInStep /\ state \notin Armed => speedRef = 0
  /\ DutyFollowsRamp' /\ BoardInStep' /\ state' \notin Armed => speedRef' = 0
  BY SpeedAssumption DEF DutyFollowsRamp, BoardInStep, Armed

\* A tick is a step of the contract: which one, the armed states before and
\* after it and the burst tell.
LEMMA TickContract ==
  ASSUME TypeOK, TypeOK', DutyFollowsRamp, DutyFollowsRamp', BoardInv, BoardInv',
         NEW dt \in Elapsed, NEW in \in Inputs, Poll(dt, in), Apply(dt)
  PROVE  Contract!Next
<1>1. BurstTells
  BY PollTells
<1>2. BoardInStep /\ BoardInStep' /\ sinceRevoke \in 0..SAFE_BOOT_HOLD /\ SAFE_BOOT_HOLD \in Nat
      /\ dt \in Nat
  BY TimingAssumption DEF BoardInv, BoardTypeOK
<1>3. /\ "ClearPermission" \in Range(actions') => sinceRevoke' = 0 /\ ~permission'
      /\ "ClearPermission" \notin Range(actions') => sinceRevoke' \in sinceRevoke..SAFE_BOOT_HOLD
  <2>1. sinceRevoke' \in 0..SAFE_BOOT_HOLD
    BY HeldOn DEF BoardInv
  <2> QED
    BY <1>2, <2>1, HeldOn DEF BoardInv
<1>4. state' \notin Armed => ~permission'
  BY DEF BoardInv, PermissionEarned
<1>5. "ArmPulse" \notin Range(actions') => UNCHANGED dirPin
  BY <1>2, PulseFirst
<1>6. CASE state \notin Armed /\ state' \notin Armed
  <2>1. speedRef' = 0 /\ ~permission' /\ UNCHANGED dirPin
    BY <1>1, <1>2, <1>4, <1>5, <1>6, Unpowered DEF BurstTells
  <2>2. CASE "ClearPermission" \in Range(actions')
    BY <1>3, <1>6, <2>1, <2>2 DEF Contract!Next, Contract!Revoke
  <2>3. CASE "ClearPermission" \notin Range(actions')
    BY <1>3, <1>6, <2>1, <2>3 DEF Contract!Next, Contract!Rest, Contract!Ages
  <2> QED
    BY <2>2, <2>3
<1>7. CASE state \notin Armed /\ state' \in Armed
  <2>1. "ArmPulse" \in Range(actions') /\ "ClearPermission" \notin Range(actions')
    BY <1>1, <1>7 DEF BurstTells
  <2>2. sinceRevoke' = SAFE_BOOT_HOLD /\ speedRef = 0 /\ speedRef' = 0
    BY <1>2, <2>1, Armable
  <2>3. permission' \in BOOLEAN /\ dirPin' \in Direction
    BY DEF BoardInv, BoardTypeOK
  <2>4. sinceRevoke' \in sinceRevoke..SAFE_BOOT_HOLD
    BY <1>3, <2>1
  <2> QED
    BY <1>7, <2>2, <2>3, <2>4 DEF Contract!Next, Contract!Grant, Contract!Ages
<1>8. CASE state \in Armed /\ state' \in Armed
  <2>1. /\ "ClearPermission" \notin Range(actions') /\ "ArmPulse" \notin Range(actions')
    BY <1>1, <1>8 DEF BurstTells, Armed
  <2>2. permission' = permission
    BY <2>1 DEF Apply, Emitted
  <2>3. sinceRevoke' \in sinceRevoke..SAFE_BOOT_HOLD /\ UNCHANGED dirPin /\ speedRef' \in Nat
    BY <1>3, <1>5, <2>1 DEF BoardInv, BoardTypeOK
  <2> QED
    BY <1>8, <2>2, <2>3 DEF Contract!Next, Contract!Drive, Contract!Ages
<1>9. CASE state \in Armed /\ state' \notin Armed
  <2>1. "ClearPermission" \in Range(actions') /\ "ArmPulse" \notin Range(actions')
    BY <1>1, <1>9 DEF BurstTells
  <2>2. speedRef' = 0
    BY <1>2, <1>9, Unpowered
  <2> QED
    BY <1>3, <1>5, <1>9, <2>1, <2>2 DEF Contract!Next, Contract!Revoke
<1> QED
  BY <1>6, <1>7, <1>8, <1>9

\* The control loop with its board implements the contract on drive permission,
\* for every timing, duty table and set of inputs.
THEOREM ContractImplemented == FanSpec => ImplementsContract
<1> DEFINE Inv == TypeOK /\ DutyFollowsRamp /\ BoardInv
<1>1. FanInit => Contract!Init
  BY DEF FanInit, Init, Armed, Direction, Contract!Init
<1>2. ASSUME Inv, Inv', [FanNext]_fanVars PROVE [Contract!Next]_(Contract!contractVars)
  <2>1. CASE Tick
    <3>1. PICK dt \in Elapsed, in \in Inputs : Poll(dt, in) /\ Apply(dt)
      BY <2>1 DEF Tick
    <3> QED
      BY <1>2, <3>1, TickContract
  <2>2. CASE UserCommand
    BY <2>2, CommandTells DEF UserCommand, boardVars, Contract!contractVars
  <2>3. CASE HardwareTrip
    <3>1. state \in Armed /\ state' = state
      BY <1>2, <2>3 DEF HardwareTrip, vars, BoardInv, PermissionEarned
    <3> QED
      BY <2>3, <3>1 DEF HardwareTrip, Contract!Next, Contract!Trip
  <2>4. CASE UNCHANGED fanVars
    BY <2>4 DEF fanVars, vars, boardVars, Contract!contractVars
  <2> QED
    BY <1>2, <2>1, <2>2, <2>3, <2>4 DEF FanNext
<1>3. FanSpec => []Inv
  BY FanInvariant
<1> HIDE DEF Inv
<1> QED
  BY <1>1, <1>2, <1>3, PTL DEF FanSpec, ImplementsContract, Contract!Spec

-----------------------------------------------------------------------------
(* Disarming.  While a disarm stands, nobody but the users has acted.        *)

Undisturbed == disarmRequested /\ permission => actions = <<>>

\* A poll that finds a disarm, whichever branch wins, ends unarmed.
LEMMA DisarmEnds ==
  ASSUME NEW dt, NEW in, Poll(dt, in), disarmRequested
  PROVE  state' \notin Armed
<1>1. \A s : ~InState(s, in)
  BY DEF InState
<1>2. PollFault(dt) \/ PollExternalFault(in) \/ PollUnpermitted(in) \/ PollDisarm(in)
  BY <1>1 DEF Poll, PollIdle, PollSafeBoot, PollStarting, PollRunning, PollWindingDown,
              PollMpetArming, PollMpet
<1> QED
  BY <1>2 DEF PollFault, PollExternalFault, PollUnpermitted, PollDisarm, EnterFault, Enter,
              Stay, Armed

LEMMA PollAsksNothing ==
  ASSUME NEW dt, NEW in, Poll(dt, in)
  PROVE  disarmRequested' => disarmRequested
<1> DEFINE Asked == disarmRequested' => disarmRequested
<1>1. \A r, b, p, d : EnterFault(r, b, p, d) => Asked
  BY DEF EnterFault
<1>2. disarmRequested' = disarmRequested => Asked
  OBVIOUS
<1>3. PollDisarm(in) => Asked
  BY DEF PollDisarm
<1> HIDE DEF Asked
<1>4. PollIdle(dt, in) => Asked
  BY <1>1, <1>2 DEF PollIdle, BeginStart, BeginMpet
<1>5. PollFault(dt) \/ PollExternalFault(in) \/ PollUnpermitted(in) \/ PollSafeBoot(dt, in) => Asked
  BY <1>1, <1>2 DEF PollFault, PollExternalFault, PollUnpermitted, PollSafeBoot
<1>6. PollStarting(dt, in) \/ PollMpetArming(dt, in) \/ PollMpet(dt, in) => Asked
  BY <1>1, <1>2 DEF PollStarting, PollMpetArming, PollMpet
<1>7. PollRunning(dt, in) \/ PollWindingDown(dt, in) => Asked
  BY <1>1, <1>2 DEF PollRunning, PollWindingDown
<1> QED
  BY <1>3, <1>4, <1>5, <1>6, <1>7 DEF Poll, Asked

\* The first tick after a disarm takes permission away.
THEOREM DisarmObeyed == FanSpec => DisarmRevokes
<1> DEFINE Inv == TypeOK /\ DutyFollowsRamp /\ BoardInv
<1>1. FanInit => Undisturbed
  BY DEF FanInit, Init, Undisturbed
<1>2. ASSUME Inv, Inv', Undisturbed, [FanNext]_fanVars
      PROVE  /\ Undisturbed'
             /\ disarmRequested /\ permission /\ permission' =>
                  UNCHANGED <<state, since, ramp, statusAge, actions, boardVars>>
  <2>1. CASE Tick
    <3>1. disarmRequested => state' \notin Armed
      BY <2>1, DisarmEnds DEF Tick
    <3>2. permission' => ~disarmRequested
      BY <1>2, <3>1 DEF BoardInv, PermissionEarned
    <3>3. disarmRequested' => disarmRequested
      BY <2>1, PollAsksNothing DEF Tick
    <3> QED
      BY <3>2, <3>3 DEF Undisturbed
  <2>2. CASE UserCommand
    <3>1. UNCHANGED <<state, since, ramp, statusAge>> /\ actions' = <<>> /\ UNCHANGED boardVars
      BY <2>2 DEF UserCommand, Command, Off, Disarm, On, SetSpeed, SetDirection, StartMpet,
                  AbortMpet, SetReleasedMin, IntentOnly, observedVars
    <3> QED
      BY <1>2, <3>1 DEF Undisturbed
  <2>3. CASE HardwareTrip
    BY <2>3 DEF HardwareTrip, Undisturbed
  <2>4. CASE UNCHANGED fanVars
    BY <1>2, <2>4 DEF fanVars, vars, boardVars, Undisturbed
  <2> QED
    BY <1>2, <2>1, <2>2, <2>3, <2>4 DEF FanNext
<1>3. Inv /\ Inv' /\ Undisturbed /\ [FanNext]_fanVars =>
        [disarmRequested /\ permission /\ permission' =>
            UNCHANGED <<state, since, ramp, statusAge, actions, boardVars>>]_fanVars
  BY <1>2
<1>4. FanSpec => []Inv
  BY FanInvariant
<1> HIDE DEF Inv
<1> QED
  BY <1>1, <1>2, <1>3, <1>4, PTL DEF FanSpec, DisarmRevokes

-----------------------------------------------------------------------------
(* The inductive invariant, one part for each of the loop's concerns.       *)

\* The service is held from the claim to the end of the write; the ticks that
\* count for the write saw it, and left a stopped fan with nothing to start.
ServiceInv ==
  /\ configService <=> console \in {"Beginning", "Writing"}
  /\ console \in {"Beginning", "Writing"} /\ (newer \/ stage # "Asleep") => serviceSeen
  /\ console = "Writing" => newer /\ state \in Stopped
  /\ serviceSeen /\ stage \in {"Abort", "Poll"} /\ state = "IdleOff" => ~on /\ ~mpetRequested

\* A caller waits for at most one access, and only until it is answered.
ExchangeInv ==
  /\ access.kind # "Start"
  /\ access.awaited \/ mcf.awaited => console \in {"Writing", "Aborting"} /\ ~reply
  /\ ~(access.awaited /\ mcf.awaited)
  /\ access.awaited /\ access.kind = "Write" => console = "Writing"
  /\ mcf.awaited /\ mcf.kind = "Write" => console = "Writing"

\* No command waits across a poll, so each still sees what its sender saw.
QueueInv ==
  /\ stage \in {"Abort", "Poll"} => queue = <<>>
  /\ \A i \in 1..Len(queue) : queue[i].faulted <=> state = "Fault"

\* An abort that was taken has left no earlier extraction anywhere.
AbortInv ==
  abortedSince /\ ~mpetAbort =>
    /\ ~mpetRequested
    /\ stage # "Poll" => state \notin MpetStates
    /\ \A i \in 1..Len(queue) : queue[i].op # "StartMpet"

\* A start on its way, and an extraction in the device, have a supervisor or an
\* abort, unless that abort was lost.
ExtractInv ==
  /\ state = "Mpet" => mpetStarted
  /\ startRequest \/ mcf.kind = "Start" => state = "Mpet" \/ abortRequest \/ abortLost
  /\ extracting => state = "Mpet" \/ abortRequest \/ abortLost \/ mcf.kind = "Abort"

LoopInv ==
  LoopTypeOK /\ ServiceInv /\ ExchangeInv /\ QueueInv /\ AbortInv /\ ExtractInv

-----------------------------------------------------------------------------
(* What the steps of the loop do to the supervisor.                         *)

LEMMA SupervisorKept ==
  ASSUME UserStep \/ Send \/ ConsoleStep \/ Deadline \/ McfStep \/ RailDips \/ UNCHANGED allVars
  PROVE  UNCHANGED <<vars, stage, serviceSeen>>
<1> DEFINE Kept == UNCHANGED <<vars, stage, serviceSeen>>
<1>1. UserStep => Kept
  BY DEF UserStep, ConsoleCommand, MatterCommand, ConsoleAbort, PermitWrite, tickVars
<1>2. Send \/ Deadline \/ RailDips => Kept
  BY DEF Send, Deadline, RailDips, tickVars
<1>3. ConsoleStep => Kept
  BY DEF ConsoleStep, ClaimService, BeginWrite, LookAgain, GiveUp, EndExchange, tickVars
<1>4. McfStep => Kept
  BY DEF McfStep, TakeAccess, TakeMpet, RegistersWritten, StartWritten, StartFailed,
    AbortWritten, AbortFailed, Answer, tickVars
<1>5. UNCHANGED allVars => Kept
  BY DEF allVars, loopVars, tickVars
<1> QED
  BY <1>1, <1>2, <1>3, <1>4, <1>5

\* A command enters no state, acknowledges a fault it finds, and only StartMpet
\* asks for an extraction.
LEMMA PerformTells ==
  ASSUME NEW op, Perform(op)
  PROVE  /\ Operation
         /\ UNCHANGED <<state, mpetStarted>>
         /\ faultAck' => faultAck \/ state = "Fault"
         /\ mpetRequested' => mpetRequested \/ op = "StartMpet"
<1>1. CASE op = "StartMpet" /\ StartMpet
  BY <1>1 DEF Operation, StartMpet, Acknowledge, IntentOnly
<1>2. CASE Off
  BY <1>2 DEF Operation, Off, Acknowledge, IntentOnly
<1>5. CASE Disarm
  BY <1>5 DEF Operation, Disarm, Acknowledge, IntentOnly
<1>6. CASE On
  BY <1>6 DEF Operation, On, Acknowledge, IntentOnly
<1>3. CASE \E s \in SpeedRequests \ {0} : SetSpeed(s)
  BY <1>3 DEF Operation, SetSpeed, Acknowledge, IntentOnly
<1>4. CASE \E d \in Direction : SetDirection(d)
  BY <1>4 DEF Operation, SetDirection, Acknowledge, IntentOnly
<1> QED
  BY <1>1, <1>2, <1>3, <1>4, <1>5, <1>6 DEF Perform

LEMMA ForceTells ==
  ASSUME ForceOff
  PROVE  /\ Operation \/ UNCHANGED vars
         /\ UNCHANGED <<state, mpetStarted>> /\ (faultAck' => faultAck)
         /\ mpetRequested' => mpetRequested
         /\ serviceSeen /\ state = "IdleOff" => ~on' /\ ~mpetRequested'
<1>1. CASE serviceSeen /\ state # "Fault"
  <2>1. Off
    BY <1>1 DEF ForceOff
  <2>2. Operation
    BY <2>1 DEF Operation
  <2>3. UNCHANGED <<state, mpetStarted>> /\ on' = FALSE /\ mpetRequested' = FALSE
    BY <2>1 DEF Off, IntentOnly
  <2>4. faultAck' => faultAck
    BY <1>1, <2>1 DEF Off, Acknowledge
  <2> QED
    BY <2>2, <2>3, <2>4
<1>2. CASE ~(serviceSeen /\ state # "Fault")
  BY <1>2 DEF ForceOff, vars
<1> QED
  BY <1>1, <1>2

LEMMA AbortTells ==
  ASSUME TakeAbort
  PROVE  /\ Operation \/ UNCHANGED vars
         /\ UNCHANGED <<state, mpetStarted, on>>
         /\ faultAck' => faultAck \/ mpetAbort
         /\ mpetRequested' => mpetRequested /\ ~mpetAbort
<1>1. CASE mpetAbort
  BY <1>1 DEF TakeAbort, AbortHeard, Operation, AbortMpet, Acknowledge, IntentOnly
<1>2. CASE ~mpetAbort
  BY <1>2 DEF TakeAbort, AbortHeard, vars
<1> QED
  BY <1>1, <1>2

-----------------------------------------------------------------------------
(* Types.                                                                   *)

TickType ==
  stage \in {"Asleep", "Drain", "Abort", "Poll"} /\ serviceSeen \in BOOLEAN /\ pgoodFell \in BOOLEAN

ServiceType ==
  /\ configService \in BOOLEAN
  /\ console \in {"Reading", "Permitted", "Beginning", "Writing", "Aborting"}
  /\ newer \in BOOLEAN /\ looks \in 0..SERVICE_POLLS

WorkType == access \in Work /\ mcf \in Work

SignalType ==
  /\ reply \in BOOLEAN /\ extracting \in BOOLEAN /\ abortLost \in BOOLEAN
  /\ startRequest \in BOOLEAN /\ abortRequest \in BOOLEAN
  /\ mpetAbort \in BOOLEAN /\ abortedSince \in BOOLEAN

QueueType ==
  /\ queue \in Seq(Sent) /\ Len(queue) =< QUEUE_CAPACITY
  /\ pending \in Seq([op : CommandName, from : Senders]) /\ Len(pending) =< 1

LEMMA LoopTypeParts ==
  /\ LoopTypeOK <=> TypeOK /\ TickType /\ ServiceType /\ WorkType /\ SignalType /\ QueueType
  /\ LoopTypeOK' <=> TypeOK' /\ TickType' /\ ServiceType' /\ WorkType' /\ SignalType' /\ QueueType'
BY DEF LoopTypeOK, TickType, ServiceType, WorkType, SignalType, QueueType

LEMMA TypeKept == TypeOK /\ UNCHANGED vars => TypeOK'
  BY DEF TypeOK, vars

LEMMA SupervisorTyped ==
  ASSUME TypeOK, [LoopNext]_allVars
  PROVE  TypeOK'
<1>1. CASE BeginTick
  BY <1>1, TypeKept DEF BeginTick
<1>2. CASE Drain
  BY <1>2, TypeKept, PerformTells, OperationType DEF Drain
<1>3. CASE EndDrain
  BY <1>3, TypeKept, ForceTells, OperationType DEF EndDrain
<1>4. CASE TakeAbort
  BY <1>4, TypeKept, AbortTells, OperationType
<1>5. CASE PollSupervisor
  <2>1. PICK dt \in Elapsed, in \in Inputs : Poll(dt, in)
    BY <1>5 DEF PollSupervisor
  <2>2. dt \in Nat /\ in \in InputSnapshot
    BY TimingAssumption, InputAssumption
  <2> QED
    BY <2>1, <2>2, PollType
<1>6. CASE ~TickStep
  BY <1>6, SupervisorKept, TypeKept DEF LoopNext
<1> QED
  BY <1>1, <1>2, <1>3, <1>4, <1>5, <1>6 DEF TickStep

\* What each kind of step leaves alone.
LEMMA TickFrame ==
  ASSUME TickStep
  PROVE  UNCHANGED <<pending, configService, console, looks, access, reply, mcf, extracting,
                     abortedSince>>
BY DEF TickStep, BeginTick, Drain, EndDrain, TakeAbort, PollSupervisor, serviceVars, accessVars,
  mpetVars

LEMMA UserFrame ==
  ASSUME UserStep \/ Send
  PROVE  UNCHANGED <<tickVars, configService, newer, looks, mcf, extracting, abortLost,
                     startRequest, abortRequest>>
BY DEF UserStep, ConsoleCommand, MatterCommand, ConsoleAbort, PermitWrite, Send, serviceVars,
  accessVars, mpetVars

LEMMA ConsoleFrame ==
  ASSUME ConsoleStep \/ Deadline
  PROVE  UNCHANGED <<tickVars, queue, pending, extracting, abortLost, mpetVars>>
BY DEF ConsoleStep, ClaimService, BeginWrite, LookAgain, GiveUp, EndExchange, Deadline,
  accessVars

LEMMA McfFrame ==
  ASSUME McfStep \/ RailDips
  PROVE  UNCHANGED <<stage, serviceSeen, serviceVars, queue, pending>>
BY DEF McfStep, TakeAccess, TakeMpet, RegistersWritten, StartWritten, StartFailed, AbortWritten,
  AbortFailed, Answer, RailDips, tickVars

LEMMA TickTyped ==
  ASSUME TickType, ServiceType, [LoopNext]_allVars
  PROVE  TickType'
<1>1. CASE TickStep
  BY <1>1 DEF TickStep, BeginTick, Drain, EndDrain, TakeAbort, PollSupervisor, TickType,
    ServiceType, tickVars
<1>2. CASE RailDips
  BY <1>2 DEF RailDips, TickType
<1>3. CASE McfStep
  BY <1>3 DEF McfStep, TakeAccess, TakeMpet, RegistersWritten, StartWritten, StartFailed,
    AbortWritten, AbortFailed, Answer, TickType, tickVars
<1>4. CASE UNCHANGED tickVars
  BY <1>4 DEF TickType, tickVars
<1> QED
  BY <1>1, <1>2, <1>3, <1>4, UserFrame, ConsoleFrame DEF LoopNext, allVars, loopVars

LEMMA ServiceTyped ==
  ASSUME ServiceType, [LoopNext]_allVars
  PROVE  ServiceType'
<1> USE DEF ServiceType
<1>0. \A n \in 0..SERVICE_POLLS : n < SERVICE_POLLS => n + 1 \in 0..SERVICE_POLLS
  BY LoopAssumption
<1>1. CASE TickStep
  <2>1. newer' \in BOOLEAN
    BY <1>1 DEF TickStep, BeginTick, Drain, EndDrain, TakeAbort, PollSupervisor, serviceVars
  <2> QED
    BY <1>1, <2>1, TickFrame
<1>2. CASE UserStep \/ Send
  <2>1. console' \in {console, "Permitted", "Aborting"}
    BY <1>2 DEF UserStep, ConsoleCommand, MatterCommand, ConsoleAbort, PermitWrite, Send, serviceVars
  <2> QED
    BY <1>2, <2>1, UserFrame
<1>3. CASE ClaimService
  <2>1. 0 \in 0..SERVICE_POLLS
    BY LoopAssumption
  <2>2. CASE configService
    BY <1>3, <2>2 DEF ClaimService
  <2>3. CASE ~configService
    BY <1>3, <2>1, <2>3 DEF ClaimService
  <2> QED
    BY <2>2, <2>3
<1>4. CASE LookAgain \/ BeginWrite \/ GiveUp
  BY <1>0, <1>4 DEF LookAgain, BeginWrite, GiveUp
<1>5. CASE EndExchange \/ Deadline
  BY <1>5 DEF EndExchange, Deadline, EndOperation
<1>6. CASE UNCHANGED serviceVars
  BY <1>6 DEF serviceVars
<1> QED
  BY <1>1, <1>2, <1>3, <1>4, <1>5, <1>6, McfFrame DEF LoopNext, ConsoleStep, allVars, loopVars

LEMMA WorkTyped ==
  ASSUME WorkType, [LoopNext]_allVars
  PROVE  WorkType'
<1>1. /\ Nothing \in Work /\ Ask("Write") \in Work /\ Ask("Abort") \in Work
      /\ Order("Start") \in Work /\ Order("Abort") \in Work
      /\ \A w \in Work : [w EXCEPT !.awaited = FALSE] \in Work
  BY DEF Nothing, Ask, Order, Work
<1>2. CASE TickStep
  BY <1>2, TickFrame DEF WorkType
<1>3. CASE UserStep \/ Send
  <2>1. access' \in {access, Ask("Abort")} /\ mcf' = mcf
    BY <1>3 DEF UserStep, ConsoleCommand, MatterCommand, ConsoleAbort, PermitWrite, Send, accessVars
  <2> QED
    BY <1>1, <2>1 DEF WorkType
<1>4. CASE ConsoleStep \/ Deadline
  <2>1. /\ access' \in {access, Ask("Write"), [access EXCEPT !.awaited = FALSE]}
        /\ mcf' \in {mcf, [mcf EXCEPT !.awaited = FALSE]}
    BY <1>4 DEF ConsoleStep, ClaimService, BeginWrite, LookAgain, GiveUp, EndExchange, Deadline,
      accessVars
  <2> QED
    BY <1>1, <2>1 DEF WorkType
<1>5. CASE McfStep \/ RailDips
  <2>1. /\ access' \in {access, Nothing}
        /\ mcf' \in {access, mcf, Nothing, Order("Start"), Order("Abort")}
    BY <1>5 DEF McfStep, TakeAccess, TakeMpet, WinningSignal, RegistersWritten, StartWritten,
      StartFailed, AbortWritten, AbortFailed, Answer, RailDips
  <2> QED
    BY <1>1, <2>1 DEF WorkType
<1>6. CASE UNCHANGED allVars
  BY <1>6 DEF WorkType, allVars, loopVars, accessVars
<1> QED
  BY <1>2, <1>3, <1>4, <1>5, <1>6 DEF LoopNext

LEMMA SignalTyped ==
  ASSUME SignalType, WorkType, [LoopNext]_allVars
  PROVE  SignalType'
<1> USE DEF SignalType
<1>1. CASE TickStep
  <2>1. CASE UNCHANGED <<abortLost, startRequest, abortRequest, mpetAbort>>
    BY <1>1, <2>1, TickFrame
  <2>2. CASE TakeAbort
    BY <2>2 DEF TakeAbort, accessVars
  <2>3. CASE PollSupervisor
    <3>1. abortLost' \in BOOLEAN /\ startRequest' \in BOOLEAN /\ abortRequest' \in BOOLEAN
      BY <2>3 DEF PollSupervisor
    <3> QED
      BY <2>3, <3>1 DEF PollSupervisor
  <2> QED
    BY <1>1, <2>1, <2>2, <2>3 DEF TickStep, BeginTick, Drain, EndDrain, accessVars, mpetVars
<1>2. CASE UserStep
  BY <1>2 DEF UserStep, ConsoleCommand, MatterCommand, ConsoleAbort, PermitWrite, accessVars, mpetVars
<1>3. CASE Send
  <2>1. abortedSince' \in BOOLEAN
    BY <1>3 DEF Send
  <2> QED
    BY <1>3, <2>1 DEF Send, accessVars
<1>4. CASE ConsoleStep \/ Deadline
  <2>1. reply' \in BOOLEAN
    BY <1>4 DEF ConsoleStep, ClaimService, BeginWrite, LookAgain, GiveUp, EndExchange, Deadline,
      accessVars
  <2> QED
    BY <1>4, <2>1, ConsoleFrame DEF mpetVars
<1>5. CASE TakeAccess \/ TakeMpet \/ RailDips
  BY <1>5 DEF TakeAccess, TakeMpet, RailDips, mpetVars
<1>6. CASE RegistersWritten \/ StartWritten \/ StartFailed \/ AbortWritten \/ AbortFailed
  <2>1. reply' \in BOOLEAN /\ UNCHANGED <<startRequest, abortRequest>>
    BY <1>6 DEF RegistersWritten, StartWritten, StartFailed, AbortWritten, AbortFailed, Answer,
      WorkType, Work
  <2>2. extracting' \in BOOLEAN /\ mpetAbort' \in BOOLEAN /\ abortedSince' \in BOOLEAN
    BY <1>6 DEF RegistersWritten, StartWritten, StartFailed, AbortWritten, AbortFailed
  <2>3. abortLost' \in BOOLEAN
    BY <1>6 DEF RegistersWritten, StartWritten, StartFailed, AbortWritten, AbortFailed
  <2> QED
    BY <2>1, <2>2, <2>3
<1>7. CASE UNCHANGED allVars
  BY <1>7 DEF allVars, loopVars, accessVars, mpetVars
<1> QED
  BY <1>1, <1>2, <1>3, <1>4, <1>5, <1>6, <1>7 DEF LoopNext, McfStep

LEMMA QueueTyped ==
  ASSUME QueueType, [LoopNext]_allVars
  PROVE  QueueType'
<1>1. CASE UNCHANGED <<queue, pending>>
  BY <1>1 DEF QueueType
<1>2. CASE Drain
  BY <1>2, LoopAssumption DEF Drain, QueueType
<1>3. ASSUME NEW op \in ConsoleCommands \cup MatterCommands, NEW from \in {"Console", "Matter"},
             pending' = <<[op |-> op, from |-> from]>>, queue' = queue
      PROVE  QueueType'
  <2>1. [op |-> op, from |-> from] \in [op : CommandName, from : Senders]
    BY LoopAssumption DEF Senders
  <2> QED
    BY <1>3, <2>1 DEF QueueType
<1>4. CASE Send
  <2>1. pending[1] \in [op : CommandName, from : Senders] /\ pending' = <<>>
    <3>1. pending \in Seq([op : CommandName, from : Senders]) /\ pending # <<>>
      BY <1>4 DEF Send, QueueType
    <3>2. \A S : \A s \in Seq(S) : s # <<>> => s[1] \in S
      OBVIOUS
    <3> QED
      BY <1>4, <3>1, <3>2 DEF Send
  <2>2. CASE Room
    <3> DEFINE sent == [op |-> pending[1].op, from |-> pending[1].from, faulted |-> state = "Fault"]
    <3>1. sent \in Sent /\ queue' = Append(queue, sent)
      BY <1>4, <2>1, <2>2 DEF Send, Sent
    <3> HIDE DEF sent
    <3> QED
      BY <2>1, <2>2, <3>1, LoopAssumption DEF QueueType, Room
  <2>3. CASE ~Room
    <3>1. queue' = queue
      BY <1>4, <2>3 DEF Send
    <3> QED
      BY <2>1, <3>1 DEF QueueType
  <2> QED
    BY <2>2, <2>3
<1> QED
  BY <1>1, <1>2, <1>3, <1>4 DEF LoopNext, TickStep, BeginTick, EndDrain, TakeAbort, PollSupervisor,
    UserStep, ConsoleCommand, MatterCommand, ConsoleAbort, PermitWrite, ConsoleStep,
    ClaimService, BeginWrite, LookAgain, GiveUp, EndExchange, Deadline, McfStep, TakeAccess,
    TakeMpet, RegistersWritten, StartWritten, StartFailed, AbortWritten, AbortFailed, Answer,
    RailDips, allVars, loopVars

LEMMA LoopTyped ==
  ASSUME LoopTypeOK, [LoopNext]_allVars
  PROVE  LoopTypeOK'
BY LoopTypeParts, SupervisorTyped, TickTyped, ServiceTyped, WorkTyped, SignalTyped, QueueTyped

LEMMA LoopInitType == LoopInit => LoopTypeOK
<1> SUFFICES ASSUME LoopInit PROVE LoopTypeOK
  OBVIOUS
<1>1. TypeOK
  BY InitType DEF LoopInit
<1>2. QueueType
  BY LoopAssumption DEF LoopInit, QueueType
<1>3. TickType /\ SignalType
  BY DEF LoopInit, TickType, SignalType
<1>4. ServiceType
  <2>1. 0 \in 0..SERVICE_POLLS
    BY LoopAssumption
  <2> QED
    BY <2>1 DEF LoopInit, ServiceType
<1>5. WorkType
  BY DEF LoopInit, WorkType, Nothing, Work
<1> QED
  BY <1>1, <1>2, <1>3, <1>4, <1>5, LoopTypeParts

-----------------------------------------------------------------------------
(* The service.                                                             *)

\* The polls and their bursts, as the loop's own steps see them.
LEMMA PollSees ==
  ASSUME state = "Mpet" => mpetStarted, PollSupervisor
  PROVE  Tame /\ Extracts
<1>1. PICK dt \in Elapsed, in \in Inputs : Poll(dt, in)
  BY DEF PollSupervisor
<1> QED
  BY <1>1, PollTames

LEMMA ServiceInductive ==
  ASSUME LoopTypeOK, ServiceInv, ExtractInv, [LoopNext]_allVars
  PROVE  ServiceInv'
<1> TickType /\ ServiceType
  BY LoopTypeParts
<1>1. CASE BeginTick
  BY <1>1 DEF BeginTick, ServiceInv, ServiceType, vars, serviceVars, Stopped
<1>2. CASE Drain
  <2>1. state' = state
    BY <1>2, PerformTells DEF Drain, vars
  <2> QED
    BY <1>2, <2>1 DEF Drain, ServiceInv, serviceVars, tickVars, Stopped
<1>3. CASE EndDrain
  <2>1. /\ state' = state
        /\ serviceSeen /\ state = "IdleOff" => ~on' /\ ~mpetRequested'
    BY <1>3, ForceTells DEF EndDrain
  <2> QED
    BY <1>3, <2>1 DEF EndDrain, ServiceInv, serviceVars, Stopped
<1>4. CASE TakeAbort
  <2>1. UNCHANGED <<state, on>> /\ (mpetRequested' => mpetRequested)
    BY <1>4, AbortTells
  <2> QED
    BY <1>4, <2>1 DEF TakeAbort, ServiceInv, serviceVars, Stopped
<1>5. CASE PollSupervisor
  <2>1. /\ stage = "Poll" /\ stage' = "Asleep" /\ newer'
        /\ UNCHANGED <<serviceSeen, configService, console>>
    BY <1>5 DEF PollSupervisor
  <2>2. console = "Writing" => state' \in Stopped
    <3>1. state' \in FanState
      BY LoopTyped DEF LoopTypeOK, TypeOK
    <3>2. state \in Stopped /\ (state = "IdleOff" => ~mpetRequested /\ ~on) => state' \notin Armed
      BY <1>5, PollSees DEF Tame, ExtractInv, Stopped, Armed
    <3> QED
      BY <2>1, <3>1, <3>2 DEF ServiceInv, FanState, Armed, Stopped
  <2> QED
    BY <2>1, <2>2 DEF ServiceInv
<1>6. CASE UserStep \/ Send
  <2>1. UNCHANGED <<vars, stage, serviceSeen>>
    BY <1>6, SupervisorKept
  <2>2. \/ console' = console
        \/ console = "Reading" /\ console' \in {"Permitted", "Aborting"}
    <3>1. CASE ConsoleAbort \/ PermitWrite
      BY <3>1 DEF ConsoleAbort, PermitWrite
    <3>2. CASE UNCHANGED serviceVars
      BY <3>2 DEF serviceVars
    <3> QED
      BY <1>6, <3>1, <3>2 DEF UserStep, ConsoleCommand, MatterCommand, Send
  <2>3. UNCHANGED <<configService, newer>>
    BY <1>6, UserFrame
  <2> QED
    BY <2>1, <2>2, <2>3 DEF ServiceInv, vars
<1>7. CASE ConsoleStep \/ Deadline
  <2>1. UNCHANGED <<vars, stage, serviceSeen>>
    BY <1>7, SupervisorKept
  <2>2. CASE ClaimService
    BY <2>1, <2>2 DEF ClaimService, ServiceInv, vars
  <2>3. CASE BeginWrite
    BY <2>1, <2>3 DEF BeginWrite, StoppedSince, ServiceInv, vars
  <2>4. CASE LookAgain
    BY <2>1, <2>4 DEF LookAgain, ServiceInv, vars
  <2>5. CASE GiveUp
    BY <2>1, <2>5 DEF GiveUp, ServiceInv, vars
  <2>6. CASE EndExchange \/ Deadline
    <3>1. console' = "Reading" /\ configService' = FALSE /\ newer' = newer
      BY <2>6 DEF EndExchange, Deadline, EndOperation, ServiceInv
    <3> QED
      BY <2>1, <3>1 DEF ServiceInv, vars
  <2> QED
    BY <1>7, <2>2, <2>3, <2>4, <2>5, <2>6 DEF ConsoleStep
<1>8. CASE McfStep \/ RailDips
  BY <1>8, SupervisorKept, McfFrame DEF ServiceInv, serviceVars, vars
<1>9. CASE UNCHANGED allVars
  BY <1>9 DEF ServiceInv, allVars, loopVars, tickVars, serviceVars, vars
<1> QED
  BY <1>1, <1>2, <1>3, <1>4, <1>5, <1>6, <1>7, <1>8, <1>9 DEF LoopNext, TickStep

LEMMA ExchangeInductive ==
  ASSUME LoopTypeOK, ExchangeInv, [LoopNext]_allVars
  PROVE  ExchangeInv'
<1> /\ access \in Work /\ mcf \in Work
    /\ console \in {"Reading", "Permitted", "Beginning", "Writing", "Aborting"}
  BY DEF LoopTypeOK
<1>1. CASE UNCHANGED <<access, mcf, reply, console>>
  BY <1>1 DEF ExchangeInv
<1>2. CASE UserStep
  <2>1. CASE ConsoleAbort
    BY <2>1 DEF ConsoleAbort, ExchangeInv, Ask, Work
  <2>2. CASE ~ConsoleAbort
    <3>1. /\ UNCHANGED <<access, mcf, reply>>
          /\ console' = console \/ console = "Reading"
      BY <1>2, <2>2 DEF UserStep, ConsoleCommand, MatterCommand, PermitWrite, serviceVars, accessVars
    <3> QED
      BY <3>1 DEF ExchangeInv
  <2> QED
    BY <2>1, <2>2
<1>3. CASE ClaimService \/ GiveUp
  <2>1. UNCHANGED <<access, mcf, reply>> /\ console \in {"Permitted", "Beginning"}
    BY <1>3 DEF ClaimService, GiveUp, accessVars
  <2> QED
    BY <2>1 DEF ExchangeInv
<1>4. CASE BeginWrite
  BY <1>4 DEF BeginWrite, ExchangeInv, Ask, Work
<1>5. CASE EndExchange
  BY <1>5 DEF EndExchange, EndOperation, ExchangeInv
<1>6. CASE Deadline
  BY <1>6 DEF Deadline, EndOperation, ExchangeInv, Work
<1>7. CASE TakeAccess
  BY <1>7 DEF TakeAccess, Idle, Nothing, ExchangeInv, serviceVars
<1>8. CASE TakeMpet
  BY <1>8 DEF TakeMpet, Order, ExchangeInv, serviceVars
<1>9. CASE RegistersWritten \/ StartWritten \/ StartFailed \/ AbortWritten \/ AbortFailed
  <2>1. mcf' = Nothing /\ reply' = (reply \/ mcf.awaited) /\ UNCHANGED <<access, console>>
    BY <1>9 DEF RegistersWritten, StartWritten, StartFailed, AbortWritten, AbortFailed, Answer,
      serviceVars
  <2> QED
    BY <2>1 DEF Nothing, ExchangeInv
<1> QED
  BY <1>1, <1>2, <1>3, <1>4, <1>5, <1>6, <1>7, <1>8, <1>9, TickFrame
  DEF LoopNext, Send, ConsoleStep, LookAgain, McfStep, RailDips, serviceVars, accessVars,
    allVars, loopVars

-----------------------------------------------------------------------------
(* The queue and the abort.                                                 *)

LEMMA TailKeeps ==
  ASSUME NEW S, NEW q \in Seq(S), q # <<>>
  PROVE  \A i \in 1..Len(Tail(q)) : i + 1 \in 1..Len(q) /\ Tail(q)[i] = q[i + 1]
OBVIOUS

LEMMA HeadFirst ==
  ASSUME NEW S, NEW q \in Seq(S), q # <<>>
  PROVE  1 \in 1..Len(q) /\ Head(q) = q[1]
OBVIOUS

LEMMA AppendKeeps ==
  ASSUME NEW S, NEW q \in Seq(S), NEW e \in S
  PROVE  \A i \in 1..Len(Append(q, e)) :
           \/ i \in 1..Len(q) /\ Append(q, e)[i] = q[i]
           \/ Append(q, e)[i] = e
OBVIOUS

\* What becomes of the commands in the queue.
LEMMA QueueFrame ==
  ASSUME LoopTypeOK, [LoopNext]_allVars
  PROVE  \/ queue' = queue
         \/ /\ Drain
            /\ \A i \in 1..Len(queue') : i + 1 \in 1..Len(queue) /\ queue'[i] = queue[i + 1]
         \/ /\ Send /\ pending # <<>>
            /\ abortedSince' = (abortedSince /\ pending[1].op # "StartMpet")
            /\ \A i \in 1..Len(queue') :
                 \/ i \in 1..Len(queue) /\ queue'[i] = queue[i]
                 \/ queue'[i].op = pending[1].op /\ (queue'[i].faulted <=> state = "Fault")
<1>0. queue \in Seq(Sent) /\ pending \in Seq([op : CommandName, from : Senders])
  BY DEF LoopTypeOK
<1>1. CASE Drain
  BY <1>0, <1>1, TailKeeps DEF Drain
<1>2. CASE Send /\ Room
  <2> DEFINE sent == [op |-> pending[1].op, from |-> pending[1].from, faulted |-> state = "Fault"]
  <2>1. \A S : \A s \in Seq(S) : s # <<>> => s[1] \in S
    OBVIOUS
  <2>2. pending # <<>> /\ pending[1] \in [op : CommandName, from : Senders]
    BY <1>0, <1>2, <2>1 DEF Send
  <2>3. sent \in Sent /\ sent.op = pending[1].op /\ (sent.faulted <=> state = "Fault")
    BY <2>2 DEF Sent
  <2>4. queue' = Append(queue, sent) /\ abortedSince' = (abortedSince /\ pending[1].op # "StartMpet")
    BY <1>2 DEF Send
  <2> HIDE DEF sent
  <2>5. \A i \in 1..Len(queue') :
          (i \in 1..Len(queue) /\ queue'[i] = queue[i]) \/ queue'[i] = sent
    BY <1>0, <2>3, <2>4, AppendKeeps
  <2> QED
    BY <1>2, <2>2, <2>3, <2>4, <2>5
<1>3. CASE Send /\ ~Room
  BY <1>3 DEF Send
<1>4. CASE BeginTick \/ EndDrain \/ TakeAbort \/ PollSupervisor \/ McfStep \/ RailDips
           \/ UNCHANGED allVars
  BY <1>4, McfFrame DEF BeginTick, EndDrain, TakeAbort, PollSupervisor, allVars, loopVars
<1>5. CASE UserStep
  BY <1>5 DEF UserStep, ConsoleCommand, MatterCommand, ConsoleAbort, PermitWrite
<1> QED
  BY <1>1, <1>2, <1>3, <1>4, <1>5, ConsoleFrame DEF LoopNext, TickStep

\* Only a poll changes the state the supervisor is in.
LEMMA StateFrame ==
  ASSUME [LoopNext]_allVars, ~PollSupervisor
  PROVE  UNCHANGED <<state, mpetStarted>>
<1>1. CASE BeginTick
  BY <1>1 DEF BeginTick, vars
<1>2. CASE Drain
  BY <1>2, PerformTells DEF Drain, vars
<1>3. CASE EndDrain
  BY <1>3, ForceTells DEF EndDrain
<1>4. CASE TakeAbort
  BY <1>4, AbortTells
<1>5. CASE ~TickStep
  BY <1>5, SupervisorKept DEF LoopNext, vars
<1> QED
  BY <1>1, <1>2, <1>3, <1>4, <1>5 DEF TickStep

LEMMA QueueInductive ==
  ASSUME LoopTypeOK, QueueInv, [LoopNext]_allVars
  PROVE  QueueInv'
<1>1. CASE PollSupervisor
  <2>1. queue' = <<>> /\ stage' = "Asleep" /\ Len(queue') = 0
    BY <1>1 DEF PollSupervisor, QueueInv
  <2> QED
    BY <2>1 DEF QueueInv
<1>2. CASE ~PollSupervisor
  <2>1. state' = state
    BY <1>2, StateFrame
  <2>2. \A i \in 1..Len(queue') : queue'[i].faulted <=> state' = "Fault"
    BY <2>1, QueueFrame DEF QueueInv
  <2>3. stage' \in {"Abort", "Poll"} => queue' = <<>>
    <3>1. CASE TickStep
      BY <1>2, <3>1 DEF TickStep, BeginTick, Drain, tickVars, EndDrain, Drained, TakeAbort, QueueInv
    <3>2. CASE Send
      <4>1. stage = "Asleep" /\ stage' = stage
        BY <3>2 DEF Send, tickVars
      <4> QED
        BY <4>1
    <3>3. CASE ~TickStep /\ ~Send
      <4>1. stage' = stage
        BY <3>3, SupervisorKept DEF LoopNext
      <4>2. queue' = queue
        BY <3>3, QueueFrame DEF TickStep
      <4> QED
        BY <4>1, <4>2 DEF QueueInv
    <3> QED
      BY <3>1, <3>2, <3>3
  <2> QED
    BY <2>2, <2>3 DEF QueueInv
<1> QED
  BY <1>1, <1>2

LEMMA AbortFrame ==
  ASSUME [LoopNext]_allVars, ~TakeAbort
  PROVE  \/ mpetAbort' = mpetAbort /\ abortedSince' = abortedSince
         \/ mpetAbort' = TRUE
         \/ Send /\ mpetAbort' = mpetAbort
<1> DEFINE Kept == mpetAbort' = mpetAbort /\ abortedSince' = abortedSince
<1>1. BeginTick \/ Drain \/ EndDrain \/ PollSupervisor => Kept
  BY DEF BeginTick, Drain, EndDrain, PollSupervisor, mpetVars
<1>2. UserStep => Kept \/ mpetAbort' = TRUE
  BY DEF UserStep, ConsoleCommand, MatterCommand, ConsoleAbort, PermitWrite, mpetVars
<1>3. Send => mpetAbort' = mpetAbort
  BY DEF Send
<1>4. McfStep => Kept \/ mpetAbort' = TRUE
  BY DEF McfStep, TakeAccess, TakeMpet, RegistersWritten, StartWritten, StartFailed,
    AbortWritten, AbortFailed, mpetVars
<1>5. ConsoleStep \/ Deadline => Kept
  BY ConsoleFrame DEF mpetVars
<1>6. RailDips \/ UNCHANGED allVars => Kept
  BY DEF RailDips, mpetVars, allVars, loopVars
<1> QED
  BY <1>1, <1>2, <1>3, <1>4, <1>5, <1>6 DEF LoopNext, TickStep

LEMMA AbortInductive ==
  ASSUME LoopTypeOK, QueueInv, ExtractInv, AbortInv, [LoopNext]_allVars
  PROVE  AbortInv'
<1> SUFFICES ASSUME abortedSince', ~mpetAbort'
             PROVE  /\ ~mpetRequested'
                    /\ stage' # "Poll" => state' \notin MpetStates
                    /\ \A i \in 1..Len(queue') : queue'[i].op # "StartMpet"
  BY DEF AbortInv
<1>0. abortedSince \in BOOLEAN /\ mpetAbort \in BOOLEAN
  BY DEF LoopTypeOK
<1>1. CASE TakeAbort
  <2>1. ~mpetRequested' /\ stage' = "Poll"
    BY <1>1, AbortTells, TickFrame DEF TakeAbort, AbortInv, TickStep
  <2>2. Len(queue') = 0
    BY <1>1 DEF TakeAbort, QueueInv
  <2> QED
    BY <2>1, <2>2
<1>2. CASE PollSupervisor
  <2>1. abortedSince /\ ~mpetAbort /\ Len(queue') = 0
    BY <1>2, TickFrame DEF PollSupervisor, QueueInv, TickStep
  <2>2. ~mpetRequested' /\ state' \notin MpetStates
    BY <1>2, <2>1, PollSees DEF Tame, AbortInv, ExtractInv
  <2> QED
    BY <2>1, <2>2
<1>3. CASE Drain
  <2>1. abortedSince /\ ~mpetAbort /\ stage' = stage /\ stage = "Drain"
    BY <1>3, TickFrame DEF Drain, mpetVars, tickVars, TickStep
  <2>2. queue \in Seq(Sent) /\ queue # <<>>
    BY <1>3 DEF Drain, LoopTypeOK
  <2>3. Head(queue).op # "StartMpet"
    BY <2>1, <2>2, HeadFirst DEF AbortInv
  <2>4. ~mpetRequested' /\ state' = state
    BY <1>3, <2>1, <2>3, PerformTells DEF Drain, AbortInv, vars
  <2>5. \A i \in 1..Len(queue') : queue'[i].op # "StartMpet"
    BY <1>3, <2>1, <2>2, TailKeeps DEF Drain, AbortInv
  <2> QED
    BY <2>1, <2>4, <2>5 DEF AbortInv
<1>4. CASE BeginTick \/ EndDrain
  <2>1. queue' = queue /\ stage # "Poll" /\ UNCHANGED <<mpetAbort, abortedSince>>
    BY <1>4 DEF BeginTick, EndDrain, mpetVars
  <2>2. state' = state /\ (mpetRequested' => mpetRequested)
    BY <1>4, ForceTells DEF BeginTick, EndDrain, vars
  <2> QED
    BY <2>1, <2>2 DEF AbortInv
<1>5. CASE Send
  <2>1. UNCHANGED <<state, mpetRequested, stage>> /\ stage = "Asleep" /\ mpetAbort' = mpetAbort
    BY <1>5, SupervisorKept DEF Send, vars
  <2>2. abortedSince /\ ~mpetAbort
    <3>1. \/ abortedSince' = (abortedSince /\ pending[1].op # "StartMpet")
          \/ abortedSince' = abortedSince
      BY <1>5 DEF Send
    <3>2. abortedSince
      BY <1>0, <3>1
    <3> QED
      BY <1>0, <2>1, <3>2
  <2>3. \A i \in 1..Len(queue') : queue'[i].op # "StartMpet"
    <3>1. ~Drain
      BY <2>1 DEF Drain
    <3> QED
      BY <2>2, <3>1, QueueFrame DEF AbortInv
  <2> QED
    BY <2>1, <2>2, <2>3 DEF AbortInv
<1>6. CASE ~TickStep /\ ~Send
  <2>1. UNCHANGED <<state, mpetRequested, stage>> /\ queue' = queue
    BY <1>6, SupervisorKept, QueueFrame DEF LoopNext, TickStep, vars
  <2>2. abortedSince /\ ~mpetAbort
    <3>1. \/ mpetAbort' = mpetAbort /\ abortedSince' = abortedSince
          \/ mpetAbort' = TRUE
      BY <1>6, AbortFrame DEF TickStep
    <3> QED
      BY <1>0, <3>1
  <2> QED
    BY <2>1, <2>2 DEF AbortInv
<1> QED
  BY <1>1, <1>2, <1>3, <1>4, <1>5, <1>6 DEF TickStep

-----------------------------------------------------------------------------
(* The extraction, from the supervisor to the device.                       *)

LEMMA ExtractInductive ==
  ASSUME LoopTypeOK, ExchangeInv, ExtractInv, [LoopNext]_allVars
  PROVE  ExtractInv'
<1>0. /\ startRequest \in BOOLEAN /\ abortRequest \in BOOLEAN /\ abortLost \in BOOLEAN
      /\ extracting \in BOOLEAN
  BY DEF LoopTypeOK
<1>1. CASE PollSupervisor
  <2>1. Extracts /\ UNCHANGED <<mcf, extracting>>
    BY <1>1, PollSees DEF ExtractInv, PollSupervisor
  <2>2. /\ startRequest' => startRequest \/ "StartMpet" \in Range(actions')
        /\ abortRequest \/ "AbortMpet" \in Range(actions') => abortRequest'
        /\ abortLost \/ Deserted => abortLost'
    BY <1>0, <1>1 DEF PollSupervisor
  <2>3. state = "Mpet" => state' = "Mpet" \/ abortRequest' \/ abortLost'
    BY <2>1, <2>2 DEF Extracts, Deserted
  <2> QED
    BY <2>1, <2>2, <2>3 DEF Extracts, ExtractInv
<1>3. CASE ConsoleStep \/ Deadline
  <2>1. mcf'.kind = mcf.kind /\ UNCHANGED <<extracting, startRequest, abortRequest, abortLost>>
    <3>1. mcf' \in {mcf, [mcf EXCEPT !.awaited = FALSE]} /\ mcf \in Work
      BY <1>3 DEF ConsoleStep, ClaimService, BeginWrite, LookAgain, GiveUp, EndExchange,
        Deadline, accessVars, LoopTypeOK
    <3> QED
      BY <1>3, <3>1, ConsoleFrame DEF Work, mpetVars
  <2>2. UNCHANGED <<state, mpetStarted>>
    BY <1>3, SupervisorKept DEF vars
  <2> QED
    BY <2>1, <2>2 DEF ExtractInv
<1>4. CASE McfStep
  <2>0. UNCHANGED <<state, mpetStarted>>
    BY <1>4, SupervisorKept DEF vars
  <2>1. CASE TakeAccess
    BY <2>0, <2>1 DEF TakeAccess, Idle, Nothing, ExchangeInv, ExtractInv, mpetVars
  <2>2. CASE TakeMpet
    <3>1. /\ mcf = Nothing /\ (abortRequest \/ startRequest)
          /\ ~startRequest' /\ ~abortRequest' /\ UNCHANGED <<extracting, abortLost>>
          /\ mcf'.kind = IF abortRequest THEN "Abort" ELSE "Start"
      BY <2>2 DEF TakeMpet, Idle, WinningSignal, Order
    <3> QED
      BY <2>0, <3>1 DEF Nothing, ExtractInv
  <2>3. CASE RegistersWritten
    BY <2>0, <2>3 DEF RegistersWritten, Answer, Nothing, ExtractInv
  <2>4. CASE StartWritten \/ StartFailed
    <3>1. /\ mcf.kind = "Start" /\ mcf'.kind = "None"
          /\ UNCHANGED <<startRequest, abortRequest, abortLost>>
      BY <2>4 DEF StartWritten, StartFailed, Answer, Nothing
    <3> QED
      BY <2>0, <3>1 DEF ExtractInv
  <2>5. CASE AbortWritten \/ AbortFailed
    <3>1. /\ mcf'.kind = "None" /\ UNCHANGED <<startRequest, abortRequest>>
          /\ extracting' => abortLost'
      BY <1>0, <2>5 DEF AbortWritten, AbortFailed, Answer, Nothing
    <3>2. startRequest /\ abortLost => abortLost'
      BY <1>0, <2>5 DEF AbortWritten, AbortFailed
    <3> QED
      BY <2>0, <3>1, <3>2 DEF ExtractInv
  <2> QED
    BY <1>4, <2>1, <2>2, <2>3, <2>4, <2>5 DEF McfStep
<1>5. CASE RailDips
  BY <1>5 DEF RailDips, ExtractInv, mpetVars, vars
<1>6. CASE UserStep \/ Send
  <2>1. UNCHANGED <<state, mpetStarted>>
    BY <1>6, SupervisorKept DEF vars
  <2> QED
    BY <1>6, <2>1, UserFrame DEF ExtractInv
<1>7. CASE (BeginTick \/ Drain \/ EndDrain \/ TakeAbort \/ UNCHANGED allVars) /\ ~PollSupervisor
  BY <1>7, StateFrame
  DEF ExtractInv, BeginTick, Drain, EndDrain, TakeAbort, accessVars, mpetVars, allVars, loopVars
<1> QED
  BY <1>1, <1>3, <1>4, <1>5, <1>6, <1>7 DEF LoopNext, TickStep

-----------------------------------------------------------------------------
LEMMA LoopInvInit == LoopInit => LoopInv
<1> SUFFICES ASSUME LoopInit PROVE LoopInv
  OBVIOUS
<1>1. LoopTypeOK
  BY LoopInitType
<1>2. ServiceInv /\ ExchangeInv
  BY DEF LoopInit, Init, ServiceInv, ExchangeInv, Nothing
<1>3. QueueInv /\ AbortInv
  <2>1. Len(queue) = 0
    BY DEF LoopInit
  <2> QED
    BY <2>1 DEF LoopInit, QueueInv, AbortInv
<1>4. ExtractInv
  BY DEF LoopInit, Init, ExtractInv, Nothing
<1> QED
  BY <1>1, <1>2, <1>3, <1>4 DEF LoopInv

LEMMA LoopInductive == LoopInv /\ [LoopNext]_allVars => LoopInv'
  BY LoopTyped, ServiceInductive, ExchangeInductive, QueueInductive, AbortInductive,
    ExtractInductive
  DEF LoopInv

THEOREM LoopInvariant == LoopSpec => []LoopInv
  BY LoopInvInit, LoopInductive, PTL DEF LoopSpec

\* The cells the tasks share keep their types and bounds, and the lock-out of
\* normal commands is always owned by an operation that will end it.
THEOREM LoopStaysConsistent == LoopSpec => []LoopConsistent
<1>1. LoopInv => LoopConsistent
  BY DEF LoopInv, ServiceInv, LoopConsistent, ServiceOwned
<1> QED
  BY <1>1, LoopInvariant, PTL

\* While a caller waits for configuration registers to be written, the drive is
\* disarmed, whatever was queued or gated before the service began.
THEOREM WritesExcludeDrive == LoopSpec => []WriteExcludesDrive
<1>1. LoopInv => WriteExcludesDrive
  BY DEF LoopInv, ServiceInv, ExchangeInv, WriteExcludesDrive, Stopped, Armed
<1> QED
  BY <1>1, LoopInvariant, PTL

\* Neither an extraction that was aborted nor one without a supervisor goes on,
\* however starts and aborts overtake one another.
THEOREM ExtractionStaysContained == LoopSpec => []ExtractionContained
<1>1. LoopInv => ExtractionContained
  BY DEF LoopInv, AbortInv, ExtractInv, ExtractionContained, AbortWins, ExtractionSupervised, Nothing
<1> QED
  BY <1>1, LoopInvariant, PTL

\* A fault is acknowledged only by a command whose sender saw it, or an abort.
THEOREM FaultsAcknowledgedAfresh == LoopSpec => AcknowledgedAfresh
<1> DEFINE Afresh == ~faultAck /\ faultAck' =>
                       \/ stage = "Drain" /\ queue # <<>> /\ Head(queue).faulted
                       \/ stage = "Abort" /\ mpetAbort
<1>1. ASSUME LoopInv, [LoopNext]_allVars PROVE [Afresh]_allVars
  <2> SUFFICES ASSUME ~faultAck, faultAck' PROVE Afresh
    OBVIOUS
  <2>0. faultAck \in BOOLEAN
    BY <1>1 DEF LoopInv, LoopTypeOK, TypeOK
  <2>1. CASE BeginTick
    BY <2>0, <2>1 DEF BeginTick, vars
  <2>2. CASE Drain
    <3>1. queue \in Seq(Sent) /\ queue # <<>> /\ stage = "Drain"
      BY <1>1, <2>2 DEF Drain, LoopInv, LoopTypeOK
    <3>2. state = "Fault"
      BY <2>0, <2>2, PerformTells DEF Drain, vars
    <3>3. Head(queue).faulted
      BY <1>1, <3>1, <3>2, HeadFirst DEF LoopInv, QueueInv
    <3> QED
      BY <3>1, <3>3
  <2>3. CASE EndDrain
    BY <2>3, ForceTells DEF EndDrain
  <2>4. CASE TakeAbort
    BY <2>4, AbortTells DEF TakeAbort
  <2>5. CASE PollSupervisor
    BY <1>1, <2>5, PollSees DEF Tame, LoopInv, ExtractInv
  <2>6. CASE ~TickStep
    BY <1>1, <2>0, <2>6, SupervisorKept DEF LoopNext, vars
  <2> QED
    BY <1>1, <2>1, <2>2, <2>3, <2>4, <2>5, <2>6 DEF TickStep
<1> QED
  BY <1>1, LoopInvariant, PTL DEF LoopSpec, AcknowledgedAfresh
=============================================================================
