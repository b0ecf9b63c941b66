SPECIFICATION AlarmSpec
CONSTANTS
  Tps = 4
  Alarms = {0, 1, 2, 3, 5}
  Sleeps = {1, 2}
  TIMEOUT = 2
  WordSize = 1000
  MaxSecs = 100
  MaxLate = 4
  NoAlarm = NoAlarm
  Heedless = {}
INVARIANTS AlarmKept SignalStateRestored LockHeld
PROPERTY CallReturns
