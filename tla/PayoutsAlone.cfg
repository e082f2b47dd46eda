SPECIFICATION Spec
CONSTANTS
  tmoney = tmoney
  flooz = flooz
  momo = momo
  thunes = thunes
  legacy = legacy
  mtn = mtn
  twin = twin
  blank = blank
  nophone = nophone
  unsupported = unsupported
  None = None
  Payouts = {tmoney, twin, flooz, momo, thunes, legacy, mtn, blank, nophone, unsupported}
  Workers = {w1, w2}
  Admins = {a1}
  ExternalRef <- SharedRefs
  Kind <- KindByName
  Incomplete <- NoPhone
  Dedups <- AllKinds
  AdminOps = {"retry", "force", "replay", "confirm"}
  BatchSize = 1
  MaxAttempts = 3
  MaxFaults = 1
SYMMETRY Interchangeable
CONSTRAINT Explored
INVARIANTS
  TypeOK
  ClaimsAreExclusive
  AttemptsWithinLimit
  UncountedSendsAreFaults
  SentHasReference
  ThunesPaysOnce
PROPERTIES
  OnlyAdminsReopen
  ConfirmedOnlyIfPaid
  ConfirmedNamesAPayment
