SPECIFICATION FairSpec
CONSTANTS
  w1 = w1
  s1 = s1
  m1 = m1
  own = own
  crew1 = crew1
  crew2 = crew2
  regatta = regatta
  Plans = {w1, w2}
  Sessions = {s1}
  Booked <- Booking
  Members = {m1}
  Variations = {own, crew1, crew2}
  SubjectOf <- Subjects
  TargetsOf <- Targets
  Crews = {crew1, crew2}
  From <- FirstDays
  Until <- LastDays
  Competitions = {regatta}
  Scheduled <- EndOfSeason
  Coaches = {c1}
  None = None
  Retired = Retired
  LastDay = 2
  MaxClock = 2
  MaxRevisions = 2
INVARIANT TypeOK
INVARIANT CurrentMissesNothing
PROPERTY PublicationsAreExact
PROPERTY PublishesWhatThePageShowed
PROPERTY ClosingKeepsWhatWasPublished
PROPERTY LocksAreReleased
CHECK_DEADLOCK FALSE
