SPECIFICATION Spec
CONSTANTS
  u1 = u1  u2 = u2  u3 = u3  s1 = s1  s2 = s2  k1 = k1  r1 = r1  w1 = w1  w2 = w2
  NoUpload = NoUpload
  Keys = {k1}
  KeyOf <- SameKey
  RemovedFrom <- RemovesPhoto
  Uploads = {u1}
  Sources = {s1}
  SourceOf <- OneUpload
  KindOf <- Equipment
  Removals = {}
  Workers = {w1, w2}
  MaxPuts = 2
  MaxAttempts = 2
  MaxEpoch = 3
  LatePuts = TRUE
INVARIANTS ReferencedObjectStored JobMatchesIntent
CHECK_DEADLOCK FALSE
