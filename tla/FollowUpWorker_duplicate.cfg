\* A send whose completion cannot be recorded.
CONSTANTS
  Jobs = {j1}
  Workers = {w1}
  MaxAttempts = 2
  Faults = {"storeError"}
  MaxFaults = 1
SPECIFICATION Spec
INVARIANT NoDuplicateMessages
CHECK_DEADLOCK FALSE
