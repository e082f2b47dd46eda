SPECIFICATION PaySpec
CONSTANTS
  Calls = {out, out2}
  Call <- Contents
  Wallets = {alice, bob}
  None = None
  Opening <- SmallChange
  Existing = {}
  Fee <- CashOutFee
  Limit <- Generous
  MaxCount = 0
  MaxAmount <- NoLimits
  MaxPhones = 0
  MaxSent = 2
  alice = alice
  bob = bob
  in = in
  inAgain = inAgain
  inRetry = inRetry
  out = out
  retry = retry
  out2 = out2
  changed = changed
  give = give
  giveBack = giveBack
  reused = reused
INVARIANT
  DebitsAreCovered
