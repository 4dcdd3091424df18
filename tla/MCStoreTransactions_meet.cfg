SPECIFICATION TransactionSpec
CONSTANTS
  r1 = r1
  r2 = r2
  r3 = r3
  k1 = k1
  k2 = k2
  Requests = {r1, r2, r3}
  Keys = {k1, k2}
  PaymentAmount = 2
  OfferedSets <- Meetings
INVARIANTS
  TransactionTypeOK
  OneEffectPerKey
  SlotIsBookedOnce
  RefundsWithinPayment
  LiveActionIsUnique
  OptOutOutrunsRecovery
  TakeoverOutrunsRecovery
PROPERTY EveryRequestEnds
\* Every client sends its request once; the system stops when all of them have ended.
CHECK_DEADLOCK FALSE
