-------------------------- MODULE OneShotChallenge --------------------------
(***************************************************************************)
(* What the wallet-challenge endpoints of the BFF promise: a challenge is  *)
(* open once, is granted to at most one verify request, only while it is   *)
(* open, and never opens again.  WalletChallenge implements this           *)
(* specification.                                                          *)
(***************************************************************************)
CONSTANTS ChallengeIds, Requests

VARIABLES
  token,    \* challenge id -> "fresh", "open" or "closed"
  holders   \* challenge id -> the verify requests it was granted to

vars == <<token, holders>>

TypeOK ==
  /\ token \in [ChallengeIds -> {"fresh", "open", "closed"}]
  /\ holders \in [ChallengeIds -> SUBSET Requests]

Init ==
  /\ token = [id \in ChallengeIds |-> "fresh"]
  /\ holders = [id \in ChallengeIds |-> {}]

OpenTokens == {id \in ChallengeIds : token[id] = "open"}

Closed(ids) == [id \in ChallengeIds |-> IF id \in ids THEN "closed" ELSE token[id]]

\* A challenge is issued; some older ones lapse with it.
Open(id, lapsed) ==
  /\ token[id] = "fresh"
  /\ token' = [Closed(lapsed) EXCEPT ![id] = "open"]
  /\ UNCHANGED holders

\* Open challenges lapse, or are spent by a request they were not meant for.
Lapse(lapsed) ==
  /\ token' = Closed(lapsed)
  /\ UNCHANGED holders

Grant(id, r) ==
  /\ token[id] = "open"
  /\ token' = Closed({id})
  /\ holders' = [holders EXCEPT ![id] = {r}]

Next ==
  \/ \E id \in ChallengeIds, lapsed \in SUBSET OpenTokens : Open(id, lapsed)
  \/ \E lapsed \in SUBSET OpenTokens : Lapse(lapsed)
  \/ \E id \in ChallengeIds, r \in Requests : Grant(id, r)

Spec == Init /\ [][Next]_vars
=============================================================================
