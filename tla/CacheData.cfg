CONSTANTS
  Objects = {1, 2, 3, 4, 5, 6, 7, 8, 9}
  Null = Null
  NoRow = NoRow
  Threads = {t1, t2}
  NoThread = NoThread
  Handles = {h1, h2}
  MaxVersion = 2
  Table <- MCTable
  Criteria = {"hardware"}
SPECIFICATION Spec
SYMMETRY Symmetry
INVARIANTS TypeOK CountsAreExact LiveIffReferenced KeyVectorIsParallel
PROPERTY AbstractSpec
VIEW UpToAddresses
