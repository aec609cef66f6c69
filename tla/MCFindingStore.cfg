SPECIFICATION Spec
CONSTANTS
  Cycles = {c1, c2}
  Cortices = {x1, x2}
  Entities = {e1}
  Types = {t1, t2}
  Limit = 1
  Clocks = {f1}
  Claims = {p, q}
  NoClaim = NoClaim
  MaxStores = 3
  c1 = c1
  c2 = c2
  x1 = x1
  x2 = x2
  t1 = t1
  t2 = t2
  p = p
  q = q
SYMMETRY Symmetry
INVARIANT CountIsLinks
INVARIANT DuplicatesOnlyByRace
PROPERTY FreshIsVisible
CHECK_DEADLOCK FALSE
