\* A takeover that nobody resolved, and an unsafe message after the customer came back.
SPECIFICATION MCSpec
CONSTANTS
  Scopes = {"chat"}
  a1 = a1
  a2 = a2
  q1 = q1
  slot1 = slot1
  slot2 = slot2
  c1 = c1
  c2 = c2
  greeting = greeting
  booking = booking
  date = date
  area = area
  stop = stop
  Appointments = {a1, a2}
  CloseReasons = {"NO_LONGER_INTERESTED"}
  OwnerFacts = {"preferredDate"}
  Quotes = {q1}
  Slots = {slot1, slot2}
  Price <- MCPrice
  Deposit <- MCDeposit
  Cadence <- MCCadence
  RequiredFacts = {"service", "preferredDate"}
  MaxHandoffs = 1
  MaxPayments = 3
  FixedPrice = FALSE
  PriceRange = TRUE
  AllowedTopics = {"businessInfo", "serviceInfo", "priceRange"}
  Calls = {c1}
  Messages <- MCMessages
PROPERTY HandoffsPauseTheAssistant
CHECK_DEADLOCK FALSE
