SPECIFICATION PlatformSpec
CONSTANTS
  ann = ann
  bob = bob
  cat = cat
  annMail = annMail
  bobMail = bobMail
  Users = {ann, bob, cat}
  Mails = {annMail, bobMail}
  MailOf <- MCMailOf
  Tenants = {t1}
  TenantNames = {alpha}
  Invitations = {i1, i2}
  TenantKeys = {k1, k2}
  OfferedRoutes <- MCRoutes
  Deliveries = {d1, d2, d3}
  Endpoints = {e1, e2}
  Events = {v1, v2}
  Payloads = {p1, p2}
  Callers = {a1, a2, a3}
  RateLimit = 2
  WindowLength = 2
  MaxBuckets = 2
  Horizon = 5
INVARIANTS
  AuthorityIsGranted
  EventsAreProcessedOnce
  RateIsLimited
PROPERTY InvitationsAreSpentOnce
\* The limiter stops with its clock.
CHECK_DEADLOCK FALSE
