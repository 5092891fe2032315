SPECIFICATION FairOtaSpec
CONSTANTS
  SAFE_BOOT_HOLD = 2
  CONFIG_CHECK_GRACE = 0
  STOPPED_QUIET = 1
  ARM_SETTLE = 1
  START_TIMEOUT = 2
  START_QUIET_TIMEOUT = 2
  MPET_TIMEOUT = 2
  STATUS_STALE_TIMEOUT = 2
  RUN_CURRENT_PROMOTE_HOLD = 0
  AGE_LIMIT = 2
  BUS_FAILURES_BEFORE_FAULT = 2
  HALL_PLAUSIBILITY = 1
  RPM_USER_MIN_TARGET = 1
  RPM_USER_MAX = 1
  RAMP_PER_TICK = 1
  RUN_CURRENT_CAPTURE = 1
  RUN_CURRENT_TOLERANCE = 1
  DutyFor <- MCDutyFor
  SpeedRequests = {1}
  ReleasedMins = {1}
  Commands = {}
  Elapsed = {1}
  Inputs <- LoopInputs
  QUEUE_CAPACITY = 1
  SERVICE_POLLS = 2
  ConsoleCommands = {}
  MatterCommands = {"On", "Disarm"}
  QUIESCE_LOOKS = 1
CHECK_DEADLOCK FALSE
PROPERTIES UpdateHoldsOff StagedBoots
