CONSTANTS
  t1 = t1
  t2 = t2
  t3 = t3
  i1 = i1
  i2 = i2
  NoOwner = NoOwner
  Tasks = {t1, t2, t3}
  Isrs = {i1, i2}
  MaxDepth = 3
SPECIFICATION Spec
INVARIANT TypeOK
INVARIANT OwnerMatchesNesting
