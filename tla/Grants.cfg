SPECIFICATION Spec
CONSTANTS
  Ops = {o1, o2}
  Calls = {c1, c2}
  Actions = {call}
  Ceilings = {1, 2}
  Starts <- MCStarts
  Day = 2
  MaxDays = 1
  Ttl = 2
  MaxClock = 3
  MaxFaults = 1
  Workloads = {{"patch", "reset", "call"}, {"reset", "call", "fault"}, {"grant", "revoke", "call", "fault"}, {"patch", "revoke"}, {"create", "rotate", "revokekey", "revoke"}}
INVARIANT GrantsConsistent
INVARIANT BudgetAge
INVARIANT ShownIsEnforced
INVARIANT LifetimeBounded
CHECK_DEADLOCK FALSE
SYMMETRY Symmetry
