SPECIFICATION Spec
CONSTANTS
  m1 = m1  m2 = m2  g1 = g1  g2 = g2  r1 = r1  r2 = r2
  NoLimit = NoLimit  NoLink = NoLink
  Members = {m1, m2}
  Groups = {g1}
  GroupsOf <- NoGroups
  Capacities = {1}
  HasDocument = TRUE
  Links = {l1}
  Requests = {r1, r2}
  MaxRev = 2
  MaxLinkRev = 1
SYMMETRY AnyOrder
INVARIANTS TypeOK PresentAreGoing
PROPERTIES SavesReplaceWhatTheyShowed SeatsAreGranted ImplementsAttendance CancelledIsFrozen AnswersAreInvited
CHECK_DEADLOCK FALSE
