SPECIFICATION FairSpec
CONSTANTS
  tmoney = tmoney
  flooz = flooz
  momo = momo
  thunes = thunes
  legacy = legacy
  mtn = mtn
  twin = twin
  blank = blank
  nophone = nophone
  unsupported = unsupported
  None = None
  Payouts = {tmoney}
  Workers = {w1}
  Admins = {a1}
  ExternalRef <- OwnRefs
  Kind <- KindByName
  Incomplete <- NoPhone
  Dedups <- AllKinds
  AdminOps = {"retry", "force"}
  BatchSize = 1
  MaxAttempts = 2
  MaxFaults = 0
PROPERTIES
  RetryableFailuresConclude
CHECK_DEADLOCK FALSE
