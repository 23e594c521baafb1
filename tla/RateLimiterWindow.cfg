SPECIFICATION Spec
CONSTANTS
  Users = {u1, u2}
  Limits = {0, 2}
  Window = 2
  MaxNow = 4
  MaxCalls = 5
INVARIANTS
  TypeOK
  AtMostLimitPerWindow
  RefusedInOneBurst
