SPECIFICATION Spec
CONSTANTS
  Keys <- MCCards
  Flow <- MCFlow
  Rail <- MCRail
  Sessions = {s1, s2}
  MaxKeys = 1
  MaxRollbacks = 0
PROPERTY WebhookKeepsTerminal
CHECK_DEADLOCK FALSE
