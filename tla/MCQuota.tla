------------------------------- MODULE MCQuota -------------------------------
(* Quota for TLC: two pubkeys that may share a tenant.                       *)
EXTENDS Quota, TLC

Symmetry == Permutations(Pubkeys) \cup Permutations(Tenants) \cup Permutations(Slots)
=============================================================================
