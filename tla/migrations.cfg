SPECIFICATION Spec
CONSTANTS
  Latest = 5
  Alters <- MCAlters
INVARIANTS
  VersionIsHonest
  OpenedIsComplete
PROPERTY
  ForwardOnly
