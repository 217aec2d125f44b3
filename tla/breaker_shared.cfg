SPECIFICATION Spec
CONSTANTS
  c1 = c1
  c2 = c2
  never = never
  Callers = {c1, c2}
  Threshold = 2
  Recovery = 2
  MaxRetries = 2
  Never = never
INVARIANTS
  OneLateRequest
PROPERTY
  CallsEnd
