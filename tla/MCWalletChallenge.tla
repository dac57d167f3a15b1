-------------------------- MODULE MCWalletChallenge --------------------------
(* Instances of WalletChallenge for TLC. *)
EXTENDS WalletChallenge, TLC

CONSTANTS c1, c2, r1, r2

ChallengeSymmetry == Permutations(ChallengeIds) \cup Permutations(Requests)
=============================================================================
