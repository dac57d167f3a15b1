\* One order, every way it can end, two reloads; the fair specification.
CONSTANTS
  o1 = o1
  o2 = o2
  w1 = w1
  Orders = {o1}
  Wallets = {w1}
  WalletOf <- OneWallet
  MaxReconciliationAttempts = 3
  MaxTracked = 1
  EndStatuses = {"filled", "canceled", "marginCanceled", "tickRejected"}
  MaxReloads = 2
SPECIFICATION FairSpec
INVARIANTS
  OneCancellationPerOrder
  PendingCancelIsBacked
  FailedOnlyWhenSpent
PROPERTIES
  SettledStatusStays
  ReconciliationEnds
  VerdictReached
CHECK_DEADLOCK FALSE
