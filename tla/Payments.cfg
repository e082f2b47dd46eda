SPECIFICATION CrowdedSpec
PROPERTY PostsAtomically
CONSTANTS
  Calls = {in, inAgain, out, retry, out2, changed, give, reused}
  Call <- Contents
  Wallets = {alice, bob}
  None = None
  Opening <- SmallChange
  Existing = {}
  Fee <- CashOutFee
  Limit <- Tight
  MaxCount = 2
  MaxAmount <- AtMostThree
  MaxPhones = 1
  MaxSent = 3
  alice = alice
  bob = bob
  in = in
  inAgain = inAgain
  inRetry = inRetry
  out = out
  retry = retry
  out2 = out2
  changed = changed
  give = give
  giveBack = giveBack
  reused = reused
INVARIANTS
  PaymentsTypeOK
  OneTransactionPerKey
  BalancesMatchEntries
  MoneyIsConserved
  SuccessIsDurable
  SuccessesAgree
  CashOutsHavePayouts
  LimitsHoldInTurn
