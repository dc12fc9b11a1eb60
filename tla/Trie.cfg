SPECIFICATION Spec
CONSTANTS
  Chars = {1, 2, 3, 4}
  Strings <- Mixed
  Messages <- Around
  MaxCount = 2
  MaxSubs = 5
  PREFIX_MAX = 3
  SPARSE_MAX = 2
INVARIANTS MatchExact WellFormed
