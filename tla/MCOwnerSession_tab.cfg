\* Two accounts and two businesses in one tab.
SPECIFICATION SessionSpec
CONSTANTS
  Users = {u1, u2}
  Tenants = {t1, t2}
  MaxMounts = 2
  MaxAsked = 2
  MaxLoads <- MCLoads
SYMMETRY MCSymmetry
INVARIANTS
  ActiveIsListed
  SpinnerHasCause
PROPERTY NewerSnapshotsOnly
\* Nothing is asked any more at the bounds.
CHECK_DEADLOCK FALSE
