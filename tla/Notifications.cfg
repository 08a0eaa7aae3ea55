SPECIFICATION Spec
CONSTANTS
  People = {1, 2}
  Messages = {1, 2}
  Rules = {r1}
  Events = {e1}
  Workers = {w1, w2}
  Relays = {w1}
  Calls = {k1}
  PerHour = 1
  MaxRules = 1
  Batch = 1
  SendAttempts = 2
  Settle = 1
  Every = 0
  Grain = 2
  MaxTime = 2
  MaxFaults = 1
  None = None
INVARIANTS HourlyBound NothingMissed NobodyTwice
CHECK_DEADLOCK FALSE
