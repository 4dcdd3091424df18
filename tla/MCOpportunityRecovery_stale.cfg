\* An active recovery whose action expired.
CONSTANTS
  c1 = c1
  ImportTime = 3
  ImportAttempts = 2
  Customers = {c1}
  Opportunities = {o1}
  CustomerOf <- MCOneCustomer
  Actions = {a1, a2}
  Jobs = {j1}
  Requests = {r1}
  ClientAttributions = {}
  Profiles <- MCTwoProfiles
  LegacyStatuses = {}
  DayLength = 2
  ContactHours = {1}
  MaxTime = 3
  ManyAttempts = 1
  MaxAttempts = 2
SPECIFICATION Spec
SYMMETRY MCActionSymmetry
PROPERTIES
  ActiveRecoveryIsLive
