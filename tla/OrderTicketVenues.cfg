\* A slot on each venue; orders, accounts and slots change under one submission.
CONSTANTS
  a1 = a1
  a2 = a2
  b1 = b1
  b2 = b2
  s1 = s1
  s2 = s2
  None = None
  Slots = {s1, s2}
  Accounts = {a1, a2}
  Contents = {b1, b2}
  SlotVenue <- OneOfEach
  MaxSubmissions = 1
  MaxSwitches = 1
SYMMETRY TicketSymmetry
SPECIFICATION Spec
INVARIANTS
  TypeOK
  SubmitsWhatWasShown
  SignedByItsAccount
PROPERTIES
  KeepsPromise
CHECK_DEADLOCK FALSE
