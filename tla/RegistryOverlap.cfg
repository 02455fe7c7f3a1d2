SPECIFICATION Spec
CONSTANTS
  f1 = f1
  f2 = f2
  f3 = f3
  f4 = f4
  t1 = t1
  t2 = t2
  t3 = t3
  Actors = {t1, t2, t3}
  Crews <- Two
  i1 = i1
  i2 = i2
  Ids = {i1, i2}
  Inodes = {f1, f2, f3, f4}
  NoInode = NoInode
SYMMETRY Symmetry
INVARIANT SavedIsLoaded
