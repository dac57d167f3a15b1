---------------------------- MODULE MCWalletLoads ----------------------------
(* Instances of WalletLoads for TLC. *)
EXTENDS WalletLoads

CONSTANTS s1, s2, w1, w2
=============================================================================
