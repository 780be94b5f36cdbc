SPECIFICATION SelectorSpec
CONSTANTS
  Thread = {t1}
  N = 3
  MaxCo = 3
INVARIANTS
  FewestIsPicked
CHECK_DEADLOCK FALSE
