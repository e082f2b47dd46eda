SPECIFICATION Spec
CONSTANTS
  tmoney = tmoney
  flooz = flooz
  momo = momo
  thunes = thunes
  legacy = legacy
  mtn = mtn
  twin = twin
  blank = blank
  nophone = nophone
  unsupported = unsupported
  None = None
  Payouts = {tmoney, thunes}
  Workers = {w1, w2}
  Admins = {a1}
  ExternalRef <- OwnRefs
  Kind <- KindByName
  Incomplete <- NoPhone
  Dedups <- AllKinds
  AdminOps = {}
  BatchSize = 2
  MaxAttempts = 2
  MaxFaults = 1
SYMMETRY Interchangeable
PROPERTIES
  KeepsPromise
CHECK_DEADLOCK FALSE
