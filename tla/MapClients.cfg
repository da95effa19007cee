CONSTANTS
  Maps = {m1, m2}
  Keys = {1, 2, 3}
  Data = {a, b}
SPECIFICATION Spec
INVARIANTS TypeOK KeyVectorsAreParallel
