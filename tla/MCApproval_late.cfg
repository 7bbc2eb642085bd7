CONSTANTS
  MaxWrites <- TwoWrites
  MaxCrashes <- TwoCrashes
SPECIFICATION Spec
INVARIANT OnlyApprovedFires
