SPECIFICATION Spec
CONSTANTS
  w1 = w1
  w2 = w2
  m1 = m1
  m2 = m2
  genesis = genesis
  Genesis = genesis
  Workers = {w1, w2}
  Messages = {m1}
  Restarts = TRUE
  LostReplies = TRUE
  MaxBackups = 3
  MaxVersion = 2
SYMMETRY MCSymmetry
INVARIANTS
  ManifestsHaveSegments
  MarkedIsRecoverable
