SPECIFICATION Spec
CONSTANTS
  s1 = s1  s2 = s2  ana = ana  rui = rui
  q1 = q1  q2 = q2  q3 = q3  e1 = e1  e2 = e2
  Subjects = {s1}
  Birthday <- Later
  Admins = {ana, rui}
  Nobody = Nobody
  Emails = {}
  NoEmail = NoEmail
  Requests = {q1, q2}
  Year = 2
  Window = 1
  MaxNow = 2
SYMMETRY Symmetry
INVARIANT TypeOK
INVARIANT RenewalsAreForThisExpiry
INVARIANT NoAuthorityWithoutPolicy
INVARIANT SessionsFollowTheCredential
PROPERTY DecisionsFollowWhatWasShown
PROPERTY ConflictsAreRespected
PROPERTY AuthorityIsBounded
CHECK_DEADLOCK FALSE
