\* Walks end after MaxSteps.
SPECIFICATION Spec
CONSTANTS
  Rule <- LastDayRules
  Months <- EveryMonth
  Ticks <- OneTick
  StartMonths = {0}
  MaxSteps = 14
  MaxChecked = 40
INVARIANT AcceptedKeepsFiring
CHECK_DEADLOCK FALSE
