SPECIFICATION Spec
CONSTANTS
  Users = {u1}
  Limits = {2}
  Window = 2
  MaxNow = 5
  MaxCalls = 5
INVARIANTS
  RefusedOnlyInFullWindow
