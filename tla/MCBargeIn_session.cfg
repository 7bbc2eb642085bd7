CONSTANTS
  MaxTurns <- TwoTurns
  MaxWords <- ThreeWords
SPECIFICATION FairSpec
INVARIANTS OneReplyOwed SilentForTheHuman
PROPERTIES KeepsDialogue NodeComesBack RepliesEnd
CHECK_DEADLOCK FALSE
