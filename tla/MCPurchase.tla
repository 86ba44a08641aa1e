----------------------------- MODULE MCPurchase -----------------------------
(* Purchase for TLC: a paid and a free-tier name, a little credit each, from  *)
(* the start or by grant.                                                   *)
EXTENDS Purchase, TLC

CONSTANTS x, y

\* x is a paid name, y a free-tier one.
PaidAndFree == [n \in Names |-> IF n = x THEN 2 ELSE 0]

\* One unit of credit each: part of a paid name, all of an additional one.
OneEach == [p \in Pubkeys |-> 1]

\* No credit but what is granted.
NoneYet == [p \in Pubkeys |-> 0]

Symmetry == Permutations(Pubkeys) \cup Permutations(Sessions) \cup Permutations(Invoices)
=============================================================================
