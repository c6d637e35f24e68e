SPECIFICATION HeapSpec
CONSTANTS
  i1 = i1
  i2 = i2
  i3 = i3
  i4 = i4
  i5 = i5
  i6 = i6
  Ids = {i1, i2, i3, i4, i5, i6}
  Priorities = {1, 2, 3}
SYMMETRY Perms
INVARIANT IndexExact
PROPERTY PopsBest
