SPECIFICATION Spec
CONSTANTS
  u1 = u1  u2 = u2  u3 = u3  s1 = s1  s2 = s2  k1 = k1  r1 = r1  w1 = w1  w2 = w2
  NoUpload = NoUpload
  Keys = {k1}
  KeyOf <- SameKey
  RemovedFrom <- RemovesPhoto
  Uploads = {u1, u2}
  Sources = {s1}
  SourceOf <- TwoOnOneSource
  KindOf <- Profile
  Removals = {r1}
  Workers = {w1}
  MaxPuts = 1
  MaxAttempts = 1
  MaxEpoch = 2
  LatePuts = FALSE
INVARIANTS TypeOK PointerMatchesIntent
PROPERTIES ReplacesWhatItRead ImplementsCustody
CHECK_DEADLOCK FALSE
