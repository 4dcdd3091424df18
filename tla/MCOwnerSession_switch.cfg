SPECIFICATION SessionSpec
CONSTANTS
  Users = {u1}
  Tenants = {t1, t2}
  MaxMounts = 1
  MaxAsked = 3
  MaxLoads <- MCLoads
INVARIANT CustomersAreOfActiveBusiness
CHECK_DEADLOCK FALSE
