\* One opportunity of the demo, its work, its money, its conversation, or its sends.
SPECIFICATION MCSpec
CONSTANTS
  Scopes = {"appointments", "jobs", "customer", "chat", "sends"}
  a1 = a1
  a2 = a2
  q1 = q1
  slot1 = slot1
  slot2 = slot2
  c1 = c1
  c2 = c2
  greeting = greeting
  booking = booking
  date = date
  area = area
  stop = stop
  Appointments = {a1, a2}
  CloseReasons = {"NO_LONGER_INTERESTED"}
  OwnerFacts = {"preferredDate"}
  Quotes = {q1}
  Slots = {slot1, slot2}
  Price <- MCPrice
  Deposit <- MCDeposit
  Cadence <- MCCadence
  RequiredFacts = {"service", "preferredDate"}
  MaxHandoffs = 1
  MaxPayments = 3
  FixedPrice = FALSE
  PriceRange = TRUE
  AllowedTopics = {"businessInfo", "serviceInfo", "priceRange"}
  Calls = {c1, c2}
  Messages <- MCMessages
SYMMETRY MCSymmetry
INVARIANTS
  DemoTypeOK
  ActiveLeadHasNextAction
  WonMeansDoneAndPaid
  ClosedIsSilent
  CollectedWithinTotal
PROPERTIES
  TakeoversEndByResumeOrSave
\* Work and money end when everything is paid and refunded.
CHECK_DEADLOCK FALSE
