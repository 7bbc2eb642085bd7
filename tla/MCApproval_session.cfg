CONSTANTS
  MaxWrites <- TwoWrites
  MaxCrashes <- TwoCrashes
SPECIFICATION FairSpec
INVARIANTS CarefulOnlyApproved
PROPERTIES KeepsConsent ApprovalIsSettled RunReturns
