CONSTANTS
  Objects = {1, 2, 3, 4, 5, 6}
  Null = Null
  NoRow = NoRow
  Threads = {t1, t2}
  NoThread = NoThread
  Handles = {h1}
  MaxVersion = 1
  Table <- MCTable
  Criteria = {"hardware"}
SPECIFICATION Spec
PROPERTY ReloadReflectsLatestData
VIEW UpToAddresses
