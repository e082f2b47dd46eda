SPECIFICATION CashOutsSpec
CONSTANTS
  alice = alice
  out = out
  again = again
  other = other
  topUp = topUp
  None = None
  Calls = {out, again, other, topUp}
  Call <- Contents
  Wallets = {alice}
  Opening <- Purse
  Existing <- Known
  Fee <- NoFee
  Limit <- Plenty
  MaxCount = 0
  MaxAmount <- Plenty
  MaxPhones = 0
  MaxSent = 2
  Workers = {w1}
  Admins = {a1}
  ExternalRef <- OwnRefs
  Kind <- Routed
  Incomplete <- Nothing
  Dedups <- Recognise
  AdminOps = {"retry"}
  BatchSize = 2
  MaxAttempts = 1
  MaxFaults = 1
INVARIANTS
  AuditsTypeOK
  NoMoneyLeavesUndebited
  ReportsAreTrue
  DifferencesAreInFlight
  QuotesAreAccepted
  AvailableIsAccepted
PROPERTIES
  PayoutsStayDecided
CHECK_DEADLOCK FALSE
CONSTRAINTS
  OneAudit
  OnePayment
  RouteFirst
ACTION_CONSTRAINT
  EndsThatLose
