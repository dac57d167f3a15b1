\* Two slots that may share a wallet, changed while requests are on their way.
CONSTANTS
  s1 = s1
  s2 = s2
  w1 = w1
  w2 = w2
  None = None
  Slots = {s1, s2}
  Wallets = {w1, w2}
  MaxChanges = 2
SPECIFICATION FairSpec
INVARIANTS
  PositionsAreConnectedWallets
  FillsAreActiveSlots
PROPERTIES
  LoadsSettle
CHECK_DEADLOCK FALSE
