\* One opportunity through its whole life: two actions, one follow-up, two days, one request in
\* flight that reads before it locks. An inquiry, or a lead imported by migration 0004.
CONSTANTS
  c1 = c1
  ImportTime = 2
  ImportAttempts = 1
  Customers = {c1}
  Opportunities = {o1}
  CustomerOf <- MCOneCustomer
  Actions = {a1, a2}
  Jobs = {j1}
  Requests = {r1}
  ClientAttributions = {"RECOVERED"}
  Profiles <- MCProfiles
  LegacyStatuses = {"QUALIFIED", "WON", "LOST"}
  DayLength = 2
  ContactHours = {1}
  MaxTime = 3
  ManyAttempts = 1
  MaxAttempts = 2
SPECIFICATION MCSpec
SYMMETRY MCActionSymmetry
INVARIANTS
  TypeOK
  OneLiveAction
  HandoffSilencesAutomation
  ClosedDoesNotRunRecovery
  LiveActionMatchesRecoveryState
  ReadyIsAuthorised
  ReadingsAreCovered
PROPERTIES
  StatusMovesAreAllowed
  RetiredWorkStaysRetired
  ApprovalsAreTimely
  KeepsTablePromises
  OnlyRequestsInFlightStray
  OnlyStaleEvaluationsStrand
