SPECIFICATION Spec
CONSTANTS
  w1 = w1
  w2 = w2
  m1 = m1
  m2 = m2
  genesis = genesis
  Genesis = genesis
  Workers = {w1}
  Messages = {m1, m2}
  Restarts = FALSE
  LostReplies = FALSE
  MaxBackups = 3
  MaxVersion = 2
INVARIANTS
  TypeOK
PROPERTY
  PublishesOneChain
