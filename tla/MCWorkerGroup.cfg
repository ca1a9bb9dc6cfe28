SPECIFICATION GSpec
CONSTANTS
  N = 3
  Schedules <- SmallSchedules
INVARIANT SameCollective
PROPERTY RoundsEnd

