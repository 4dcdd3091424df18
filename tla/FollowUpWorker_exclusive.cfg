\* Two processes, two follow-ups; leases outlive sends: every fault but an overrun.
CONSTANTS
  Jobs = {j1, j2}
  Workers = {w1, w2}
  MaxAttempts = 2
  Faults = {"crash", "stop", "storeError", "lostAnswer"}
  MaxFaults = 2
SPECIFICATION FairSpec
INVARIANT ExclusiveDispatch
CHECK_DEADLOCK FALSE
