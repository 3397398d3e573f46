------------------------------- MODULE MCLeaseBroker -------------------------------
(* LeaseBroker for TLC. *)
EXTENDS LeaseBroker, TLC

CONSTANTS c1, c2, s1, s2, k1, k2, search, r1, r2, r3

OneSlot == [p \in Providers |-> 1]

SymBroker == Permutations(Clients) \cup Permutations(Sessions) \cup Permutations(Conns)
             \cup Permutations(Requests)
=============================================================================
