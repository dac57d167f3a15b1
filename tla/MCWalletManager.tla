--------------------------- MODULE MCWalletManager ---------------------------
(* Instances of WalletManager for TLC. *)
EXTENDS WalletManager, TLC

CONSTANTS a1, a2, c1, c2

AccountSymmetry == Permutations(Accounts)

ConnectorSymmetry == Permutations(Connectors)
=============================================================================
