\* Two submissions of one order, the first perhaps still running in the BFF or the
\* venue; one account, whose changes OrderTicketVenues shows; the fair specification.
CONSTANTS
  a1 = a1
  a2 = a2
  b1 = b1
  b2 = b2
  s1 = s1
  s2 = s2
  None = None
  Slots = {s1}
  Accounts = {a1}
  Contents = {b1}
  SlotVenue <- OnHyperliquid
  MaxSubmissions = 2
  MaxSwitches = 0
SPECIFICATION FairSpec
INVARIANTS
  OneOrderPerSubmission
  SubmittedIsTaken
  FailedMadeNoOrder
PROPERTIES
  FormIsFreed
CHECK_DEADLOCK FALSE
