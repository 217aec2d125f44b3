SPECIFICATION Spec
CONSTANTS
  poller = poller
  poller2 = poller2
  user = user
  asset = asset
  unset = unset
  Unset = unset
  Threads = {poller, user}
  Pollers = {poller}
  Log = 4
  HasText = {1, 2, 4}
  HasMedia = {2, 3}
  Malformed = {4}
  Assets = {asset}
  PageSize = 2
  SchemaSize = 1
  MaxDb = 3
  Cooldown = 1
  MaxTime = 2
  MaxFaults = 2
INVARIANTS
  TypeOK
  NothingSkipped
  BlobHasRows
  EvictedHasText
PROPERTIES
  ArrivesUpToMalformed
  EnforcedSparingly
