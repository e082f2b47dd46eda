SPECIFICATION Spec
CONSTANTS
  tmoney = tmoney
  flooz = flooz
  momo = momo
  thunes = thunes
  legacy = legacy
  mtn = mtn
  twin = twin
  blank = blank
  nophone = nophone
  unsupported = unsupported
  None = None
  Payouts = {momo}
  Workers = {w1, w2}
  Admins = {a1, a2}
  ExternalRef <- OwnRefs
  Kind <- KindByName
  Incomplete <- NoPhone
  Dedups <- AllKinds
  AdminOps = {"retry", "force"}
  BatchSize = 1
  MaxAttempts = 3
  MaxFaults = 1
PROPERTIES
  ConfirmedIsNotRetried
