SPECIFICATION DeploymentSpec
CONSTANTS
  Jobs = {a, b, c}
  Unready = {c}
  a = a
  b = b
  c = c
  None = None
  Free = Free
CHECK_DEADLOCK FALSE
INVARIANT RolledBackRunsCurrent
