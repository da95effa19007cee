SPECIFICATION Spec
CONSTANTS
  Threads = {t1, t2, t3}
  Objects = {o1, o2, o3, o4, o5, o6}
  Null = Null
  NoRow = NoRow
  Fresh = Fresh
  Used = Used
  InitialSize = 1
  IncrementStep = 3
SYMMETRY Symmetry
INVARIANTS
  TypeOK
  CountsAreExact
  OneOwner
  AvailableIsReset
  PoolStaysBounded
