CONSTANTS
  p = p
  q = q
  e1 = e1
  e2 = e2
  e3 = e3
  l1 = l1
  l2 = l2
  l3 = l3
  top = top
  low = low
  other = other
  third = third
  t1 = t1
  t2 = t2
  Processes = {p, q}
  Lanes = {l1, l2, l3}
  Elements = {e1, e2, e3}
  Keys = {top, low, other, third}
  Payloads = {t1, t2}
  Layouts <- MCLayouts
SPECIFICATION FairSpec
INVARIANTS TypeOK CreditsCount OneRequestPerNode WalkComplete
PROPERTIES ImplementsTermination WalkEnds
