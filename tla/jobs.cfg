\* Two requests, two workers, two mishaps.  When the requests are used up, nothing is left to do.
SPECIFICATION FairSpec
CONSTANTS
  e1 = e1
  e2 = e2
  w1 = w1
  w2 = w2
  MaxRequests = 2
  Enqueuers = {e1, e2}
  Workers = {w1, w2}
  Families <- AllFamilies
  MaxTries = 1
  MaxMishaps = 2
INVARIANTS ActiveIsCarried WorkIsExplained
PROPERTIES JobsFinish
CHECK_DEADLOCK FALSE
