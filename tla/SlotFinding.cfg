SPECIFICATION SilentService
CONSTANTS
  Ids <- OneMail
  Cpus = 1
  Faults <- SlotOnly
PROPERTY RunContinues
CHECK_DEADLOCK FALSE
