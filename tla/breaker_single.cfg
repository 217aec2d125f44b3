SPECIFICATION Spec
CONSTANTS
  c1 = c1
  c2 = c2
  never = never
  Callers = {c1}
  Threshold = 5
  Recovery = 3
  MaxRetries = 3
  Never = never
INVARIANTS
  TypeOK
PROPERTY
  AdmitsAgain
