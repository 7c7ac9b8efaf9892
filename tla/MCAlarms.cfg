SPECIFICATION Spec
SYMMETRY Symmetry
CONSTANTS
  Lines = {0, 1}
  Handlers = {h1}
  NULL = NULL
  Alarms = {a, b, c}
  alt_alarm_list = alt_alarm_list
  Intervals = {0, 2}
  Word = 4
  rate = 2
  US = 2
  Times <- MCTimes
  MaxTicks = 5
INVARIANTS AlarmsOnTime AlarmListIsWhole CallsAreRegistered TimeIsKept
CHECK_DEADLOCK FALSE
