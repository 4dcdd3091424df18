\* Two processes, one follow-up, every kind of fault; fairness.
CONSTANTS
  Jobs = {j1}
  Workers = {w1, w2}
  MaxAttempts = 3
  Faults = {"overrun", "crash", "stop", "storeError", "lostAnswer"}
  MaxFaults = 3
SPECIFICATION FairSpec
INVARIANTS
  TypeOK
  AttemptsAreOnRecord
  DuplicatesAreFaults
PROPERTIES
  KeepsTablePromises
  EveryJobSettles
CHECK_DEADLOCK FALSE
