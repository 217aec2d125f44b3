SPECIFICATION Spec
CONSTANTS
  genesis = genesis
  Genesis = genesis
  YearDays = 7
  MonthDays = 2
  MonthsPerYear = 3
  MaxPending = 2
  KeepCount = 1
  MaxDay = 8
  MaxSegments = 4
  MaxManifests = 2
INVARIANTS
  AcceptedIsNotForgotten
  NamedIsUploaded
  RecentSegmentsOpen
