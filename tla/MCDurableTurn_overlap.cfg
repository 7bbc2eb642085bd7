SPECIFICATION Spec
CONSTANTS
  d1 = d1
  d2 = d2
  c1 = c1
  c2 = c2
  Drivers <- TwoDrivers
  CallIds <- OneCall
  MaxStep = 4
  Overlap = TRUE
  LosesSession = FALSE
  Free = Free
  Dead = Dead
INVARIANT AtMostOnce
