SPECIFICATION Spec
CONSTANTS
  People = {owner, ada, bola}
  Owner = owner
  Target = 2
  Invites = {i1, i2, i3}
  Sessions = {s1, s2, s3}
  NoDraw = NoDraw
INVARIANTS TypeOK UnagreedWereJoining OnlyLateMembersMissOut RecipientsPay
PROPERTY DrawIsBinding
SYMMETRY CircleSymmetry
CHECK_DEADLOCK FALSE
