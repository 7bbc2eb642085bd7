CONSTANTS
  a = a
  b = b
  c = c
  fanout = fanout
  chain = chain
  NoIntent = NoIntent
  Nobody = Nobody
  Specialists <- Team
  Intents <- Labels
  Routing <- Table
  Priority <- Order
  RetryOn <- Retryable
  MaxAttempts = 2
  MaxTurns = 2
  MaxStops = 0
SPECIFICATION Spec
INVARIANT AnswersThisTurn
CHECK_DEADLOCK FALSE
