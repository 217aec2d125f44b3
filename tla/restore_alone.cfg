SPECIFICATION Spec
CONSTANTS
  r1 = r1
  r2 = r2
  m1 = m1
  m2 = m2
  m3 = m3
  Restorers = {r1}
  Messages = {m1, m2, m3}
  Backup <- MCBackup
  SealedWith = "archive_segment"
  GatewayFails = TRUE
  StatementsFail = TRUE
  MaxOpen = 2
INVARIANTS
  TypeOK
  RestoreIsAtomic
