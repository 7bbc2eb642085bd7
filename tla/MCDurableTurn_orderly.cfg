SPECIFICATION FairSpec
CONSTANTS
  d1 = d1
  d2 = d2
  c1 = c1
  c2 = c2
  Drivers <- TwoDrivers
  CallIds <- TwoCalls
  MaxStep = 5
  Overlap = FALSE
  LosesSession = FALSE
  Free = Free
  Dead = Dead
INVARIANTS TypeOK AtMostOnce SingleOwner
PROPERTIES KeepsPromise LockComesFree DriverReturns
