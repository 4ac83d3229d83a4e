SPECIFICATION FairSpec
CONSTANTS
  u1 = u1  t1 = t1  t2 = t2  t3 = t3  e1 = e1  e2 = e2  p1 = p1  p2 = p2
  NoToken = NoToken
  Users = {u1}
  Emails = {e1, e2}
  Passwords = {p1}
  FirstEmail <- StartsAtE1
  FirstPassword <- StartsWithP1
  Tokens = {t1}
  UserOf <- OneUser
  KindOf <- Verifications
  Requests = {r1}
  Visitors = {}
  Workers = {w1, w2}
  MaxAttempts = 2
  MaxPerHour = 2
  MaxVersion = 1
  MaxFaults = 1
INVARIANTS CopiesArePaidFor
PROPERTIES OutcomesAreFinal MailSettles
CHECK_DEADLOCK FALSE
