------------------------------ MODULE MCLeaseRegistry ------------------------------
(* LeaseRegistry for TLC. *)
EXTENDS LeaseRegistry, TLC

CONSTANTS c1, c2, s1, s2, k1, k2, search, ai, r1, r2, r3, r4

MCClients == {c1, c2}
MCSessions == {s1, s2}

\* One slot of google-ai as in the code; two of google-search instead of five.
MCCap == [p \in Providers |-> IF p = search THEN 2 ELSE 1]
OneSlot == [p \in Providers |-> 1]

SymCalls == Permutations(Clients) \cup Permutations(Sessions) \cup Permutations(Conns)
            \cup Permutations(Requests)
=============================================================================
