\* Walks end after MaxSteps and time at its bound.
SPECIFICATION MCSpec
CONSTANTS
  Rule <- AllRules
  Months <- SomeMonths
  Ticks <- SomeTicks
  StartMonths = {0, 13}
  MaxSteps = 13
  MaxChecked = 40
INVARIANT ReportAddsUp
PROPERTIES LeastNext DueFollowsPolicy
CHECK_DEADLOCK FALSE
