SPECIFICATION Spec
CONSTANTS
  u1 = u1  t1 = t1  t2 = t2  t3 = t3  e1 = e1  e2 = e2  p1 = p1  p2 = p2
  NoToken = NoToken
  Users = {u1}
  Emails = {e1}
  Passwords = {p1, p2}
  FirstEmail <- StartsAtE1
  FirstPassword <- StartsWithP1
  Tokens = {t1, t2}
  UserOf <- OneUser
  KindOf <- Resets
  Requests = {r1, r2}
  Visitors = {v1}
  Workers = {w1}
  MaxAttempts = 1
  MaxPerHour = 1
  MaxVersion = 2
  MaxFaults = 0
SYMMETRY AnyOrder
INVARIANTS TypeOK HourlyLimitHolds SessionsKnowThePassword NoMailForAClosedLink
PROPERTIES ImplementsSingleUse
CHECK_DEADLOCK FALSE
