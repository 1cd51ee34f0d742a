SPECIFICATION Spec
CONSTANTS
  People = {owner, ada, bola}
  Owner = owner
  Target = 2
  Invites = {i1, i2}
  Sessions = {s1, s2}
  NoDraw = NoDraw
PROPERTY ValidTransitions
CHECK_DEADLOCK FALSE
