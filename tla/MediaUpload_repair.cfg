SPECIFICATION FairSpec
CONSTANTS
  u1 = u1  u2 = u2  u3 = u3  s1 = s1  s2 = s2  k1 = k1  r1 = r1  w1 = w1  w2 = w2
  NoUpload = NoUpload
  Keys = {k1}
  KeyOf <- SameKey
  RemovedFrom <- RemovesPhoto
  Uploads = {u1, u2}
  Sources = {s1, s2}
  SourceOf <- OnSourcesOfTheirOwn
  KindOf <- Repairs
  Removals = {}
  Workers = {w1}
  MaxPuts = 1
  MaxAttempts = 2
  MaxEpoch = 2
  LatePuts = FALSE
INVARIANTS OneRepairPerKey AbsenceHolds
PROPERTIES LimboEnds
CHECK_DEADLOCK FALSE
