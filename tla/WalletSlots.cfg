\* Two wallets with one account each, two slots and a reload.
CONSTANTS
  a1 = a1
  a2 = a2
  c1 = c1
  c2 = c2
  None = None
  Accounts = {a1}
  Connectors = {c1, c2}
  Venues = {"hyperliquid"}
  MaxWalletSlots = 2
  MaxSlotIds = 2
  MaxClicks = 3
  MaxSwitches = 0
  MaxReloads = 1
SYMMETRY ConnectorSymmetry
SPECIFICATION Spec
INVARIANTS
  ConnectorExclusive
  TradableVerifiedOnPage
PROPERTIES
  DisconnectedStays
CHECK_DEADLOCK FALSE
