\* Two challenges, two verify requests, a lifetime of two ticks out of four.
CONSTANTS
  c1 = c1
  c2 = c2
  r1 = r1
  r2 = r2
  ChallengeIds = {c1, c2}
  Addresses = {"a1", "a2"}
  Requests = {r1, r2}
  Ttl = 2
  MaxTime = 4
  MaxRestarts = 1
SYMMETRY ChallengeSymmetry
SPECIFICATION Spec
INVARIANTS
  AttemptSpends
  GrantedAsIssued
PROPERTIES
  LiveUntilUsed
  KeepsPromise
CHECK_DEADLOCK FALSE
