\* One wallet with two accounts, which changes its account once; two slots.
CONSTANTS
  a1 = a1
  a2 = a2
  c1 = c1
  c2 = c2
  None = None
  Accounts = {a1, a2}
  Connectors = {c1}
  Venues = {"hyperliquid"}
  MaxWalletSlots = 2
  MaxSlotIds = 2
  MaxClicks = 3
  MaxSwitches = 1
  MaxReloads = 1
SYMMETRY AccountSymmetry
SPECIFICATION Spec
INVARIANTS
  TradableWasConfirmed
  ConnectedHasSession
  CheckingIsRunning
CHECK_DEADLOCK FALSE
