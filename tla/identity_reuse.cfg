SPECIFICATION Spec
CONSTANTS
  e1 = e1
  e2 = e2
  p1 = p1
  p2 = p2
  r1 = r1
  r2 = r2
  t1 = t1
  t2 = t2
  t3 = t3
  None = None
  Emails = {e1, e2}
  Passwords = {p1, p2}
  TokenIds = {t1, t2, t3}
  Requests = {r1, r2}
  MaxChanges <- Changes
  MaxCuts <- Cuts
  MaxExpired = 1
SYMMETRY Symmetry
PROPERTY ReuseRevokesFamily
