SPECIFICATION Spec
CONSTANTS
  m1 = m1  m2 = m2  g1 = g1  g2 = g2  r1 = r1  r2 = r2
  NoLimit = NoLimit  NoLink = NoLink
  Members = {m1, m2}
  Groups = {g1, g2}
  GroupsOf <- OneGroupEach
  Capacities = {1}
  HasDocument = TRUE
  Links = {}
  Requests = {r1, r2}
  MaxRev = 1
  MaxLinkRev = 0
SYMMETRY AnyRequest
PROPERTIES EditsMeetTheirConditions
CHECK_DEADLOCK FALSE
