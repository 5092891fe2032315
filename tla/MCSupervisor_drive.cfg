SPECIFICATION Spec
CONSTANTS
  SAFE_BOOT_HOLD = 3
  CONFIG_CHECK_GRACE = 0
  STOPPED_QUIET = 2
  ARM_SETTLE = 1
  START_TIMEOUT = 3
  START_QUIET_TIMEOUT = 3
  MPET_TIMEOUT = 3
  STATUS_STALE_TIMEOUT = 2
  RUN_CURRENT_PROMOTE_HOLD = 1
  AGE_LIMIT = 3
  BUS_FAILURES_BEFORE_FAULT = 2
  HALL_PLAUSIBILITY = 1
  RPM_USER_MIN_TARGET = 2
  RPM_USER_MAX = 4
  RAMP_PER_TICK = 1
  RUN_CURRENT_CAPTURE = 1
  RUN_CURRENT_TOLERANCE = 1
  DutyFor <- MCDutyFor
  SpeedRequests = {0, 9}
  ReleasedMins = {2}
  Commands = {"Disarm", "On", "SetSpeed", "SetDirection", "StartMpet", "AbortMpet"}
  Elapsed = {1}
  Inputs <- DriveInputs
INVARIANTS Consistent NoBlindDrive BurstFits
PROPERTIES FaultLatched MpetAborted
