SPECIFICATION FairSpec
CONSTANTS
  s1 = s1  s2 = s2  ana = ana  rui = rui
  q1 = q1  q2 = q2  q3 = q3  e1 = e1  e2 = e2
  Subjects = {s1}
  Birthday <- First
  Admins = {ana}
  Nobody = Nobody
  Emails = {e1}
  NoEmail = NoEmail
  Requests = {q1}
  Year = 2
  Window = 1
  MaxNow = 2
PROPERTY CutoffsAreMaterialized
CHECK_DEADLOCK FALSE
