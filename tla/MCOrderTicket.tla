--------------------------- MODULE MCOrderTicket ---------------------------
(* Instances of OrderTicket for TLC. *)
EXTENDS OrderTicket, TLC

CONSTANTS a1, a2, s1, s2, b1, b2

OneOfEach == [s \in Slots |-> IF s = s1 THEN "hyperliquid" ELSE "aster"]
OnHyperliquid == [s \in Slots |-> "hyperliquid"]

TicketSymmetry == Permutations(Accounts) \cup Permutations(Contents)
=============================================================================
