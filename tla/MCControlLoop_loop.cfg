SPECIFICATION LoopSpec
CONSTANTS
  SAFE_BOOT_HOLD = 1
  CONFIG_CHECK_GRACE = 0
  STOPPED_QUIET = 1
  ARM_SETTLE = 1
  START_TIMEOUT = 1
  START_QUIET_TIMEOUT = 1
  MPET_TIMEOUT = 1
  STATUS_STALE_TIMEOUT = 1
  RUN_CURRENT_PROMOTE_HOLD = 0
  AGE_LIMIT = 1
  BUS_FAILURES_BEFORE_FAULT = 2
  HALL_PLAUSIBILITY = 1
  RPM_USER_MIN_TARGET = 1
  RPM_USER_MAX = 1
  RAMP_PER_TICK = 1
  RUN_CURRENT_CAPTURE = 1
  RUN_CURRENT_TOLERANCE = 1
  DutyFor <- MCDutyFor
  SpeedRequests = {1}
  ReleasedMins = {1}
  Commands = {}
  Elapsed = {1}
  Inputs <- LoopInputs
  QUEUE_CAPACITY = 2
  SERVICE_POLLS = 1
  ConsoleCommands = {"StartMpet"}
  MatterCommands = {"SetSpeed"}
INVARIANTS LoopConsistent WriteExcludesDrive ExtractionContained
PROPERTIES AcknowledgedAfresh
