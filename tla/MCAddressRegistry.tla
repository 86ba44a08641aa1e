-------------------------- MODULE MCAddressRegistry --------------------------
(* AddressRegistry for TLC: the symmetry of its runs.  Where a name can be  *)
(* reserved, names are not interchangeable.                                 *)
EXTENDS AddressRegistry, TLC

Symmetry == Permutations(Pubkeys) \cup Permutations(RealNames)
              \cup Permutations(AutoNames) \cup Permutations(Sessions)

ReservedSymmetry == Permutations(Pubkeys) \cup Permutations(Sessions)
=============================================================================
