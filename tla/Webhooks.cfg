SPECIFICATION WebhooksFairSpec
CONSTANTS
  tmoney = tmoney
  thunes = thunes
  None = None
  Payouts = {tmoney}
  Workers = {w1}
  Admins = {a1}
  ExternalRef <- OwnRefs
  Kind <- KindByName
  Incomplete = {}
  Dedups <- AllKinds
  AdminOps = {}
  BatchSize = 1
  MaxAttempts = 2
  MaxFaults = 1
  Deliveries = {d1, d2}
  Conditions <- EveryReason
  AllowUnsigned = TRUE
INVARIANTS
  WebhooksTypeOK
  DroppedOnlyIfStale
PROPERTIES
  EventsTellTheTruth
  AcceptedPayoutsConclude
CHECK_DEADLOCK FALSE
