CONSTANTS
  Client = {x, y, z}
  WheelLen = 2
  Rolls = 4
SPECIFICATION Spec
INVARIANT SleepIsExact
PROPERTY WheelIsCalendar
