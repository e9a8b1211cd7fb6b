SPECIFICATION Spec
CONSTANTS
  Weeks = 8
  Week = 8
  Open = 5
  Offsets = {1, 2}
  Missing = {1, 4}
  MaxHolidays = 1
  MaxSwitches = 1
  Starts = {0, 2}
  Moments = {1, 4, 7}
  MinGap = 3
  MaxOffset = 2
  MaxSwitch = 1
  Confirmations = 2
  MinWeekends = 3
  Refresh = 2
  Lookback = 8
INVARIANT TypeOK
INVARIANT KnownWeeksConvert
INVARIANT HolidaysStayOut
INVARIANT SweepIsWhole
