--------------------------- MODULE MCOrderTracker ---------------------------
(* Instances of OrderTracker for TLC. *)
EXTENDS OrderTracker, TLC

CONSTANTS o1, o2, w1

OneWallet == [o \in Orders |-> w1]
OrderSymmetry == Permutations(Orders)
=============================================================================
