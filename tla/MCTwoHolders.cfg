SPECIFICATION Spec
CONSTANTS
  Instance = {a, b, c}
  Slow = {}
  Stale = 7
  Refresh = 2
  Settle = 1
  Nobody = Nobody
SYMMETRY Symmetry
INVARIANT
  OneHolder

