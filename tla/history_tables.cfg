SPECIFICATION Spec
CONSTANTS
  Years = {2025, 2026}
  Instants = 2
INVARIANT PlanIsExact
CHECK_DEADLOCK FALSE
