SPECIFICATION FairSpec
CONSTANTS
  SAFE_BOOT_HOLD = 3
  CONFIG_CHECK_GRACE = 1
  STOPPED_QUIET = 2
  ARM_SETTLE = 1
  START_TIMEOUT = 4
  START_QUIET_TIMEOUT = 4
  MPET_TIMEOUT = 4
  STATUS_STALE_TIMEOUT = 2
  RUN_CURRENT_PROMOTE_HOLD = 1
  AGE_LIMIT = 4
  BUS_FAILURES_BEFORE_FAULT = 2
  HALL_PLAUSIBILITY = 1
  RPM_USER_MIN_TARGET = 2
  RPM_USER_MAX = 3
  RAMP_PER_TICK = 1
  RUN_CURRENT_CAPTURE = 1
  RUN_CURRENT_TOLERANCE = 1
  DutyFor <- LiveDutyFor
  SpeedRequests = {2}
  ReleasedMins = {2, 3}
  Commands = {"Off", "On", "SetSpeed", "SetReleasedMin", "SetDirection", "StartMpet", "AbortMpet"}
  Elapsed = {1, 2}
  Inputs <- LiveInputs
PROPERTIES WaitsResolve FloorReached
