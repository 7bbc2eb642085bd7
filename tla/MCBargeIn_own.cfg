CONSTANTS
  MaxTurns <- TwoTurns
  MaxWords <- ThreeWords
SPECIFICATION Spec
PROPERTY AmendsItsOwnReply
CHECK_DEADLOCK FALSE
