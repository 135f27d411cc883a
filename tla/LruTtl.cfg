SPECIFICATION CacheSpec
CONSTANTS
  Keys = {k1, k2, k3, k4}
  Capacity = 3
  Ttls = {0, 1, 2}
  MaxStarts = 3
  MaxPending = 3
  Avoided = {"replace", "relink"}
INVARIANTS
  OldestInFront
  TimerObeys
CHECK_DEADLOCK FALSE
