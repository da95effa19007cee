CONSTANTS
  Values = {0, 1}
  Default = 0
SPECIFICATION Spec
INVARIANTS StrictOrder SameKeyIsEqualKey GreaterIsConverse OrderIsLexicographic
