\* Two orders of one wallet that tracks one: interleaved flows and polls, and
\* updates that arrive for an action the list has dropped.
CONSTANTS
  o1 = o1
  o2 = o2
  w1 = w1
  Orders = {o1, o2}
  Wallets = {w1}
  WalletOf <- OneWallet
  MaxReconciliationAttempts = 2
  MaxTracked = 1
  EndStatuses = {"filled", "tickRejected"}
  MaxReloads = 1
SYMMETRY OrderSymmetry
SPECIFICATION Spec
INVARIANTS
  TerminalStatusIsVenues
  OnePollPerAction
  TracksLatestSubmissions
CHECK_DEADLOCK FALSE
