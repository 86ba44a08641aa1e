------------------------------ MODULE NameBook ------------------------------
(***************************************************************************)
(* What the registry promises about a name, and all that cloistr-email and *)
(* the NIP-05 and LNURL lookups rely on: a name is issued once, to one     *)
(* holder; only a transfer hands it to another; once revoked it never      *)
(* answers for anybody again.                                              *)
(***************************************************************************)
CONSTANTS Pubkeys, Names, Nobody

VARIABLES
  issued,  \* the names ever issued
  holder   \* the pubkey a name answers for, or Nobody

bvars == <<issued, holder>>

Init == issued = {} /\ holder = [n \in Names |-> Nobody]

Issue(n, p) ==
  /\ n \notin issued
  /\ issued' = issued \cup {n}
  /\ holder' = [holder EXCEPT ![n] = p]

Transfer(n, p) ==
  /\ holder[n] # Nobody
  /\ holder' = [holder EXCEPT ![n] = p]
  /\ UNCHANGED issued

Revoke(n) ==
  /\ holder[n] # Nobody
  /\ holder' = [holder EXCEPT ![n] = Nobody]
  /\ UNCHANGED issued

Next == \E n \in Names : Revoke(n) \/ \E p \in Pubkeys : Issue(n, p) \/ Transfer(n, p)

Spec == Init /\ [][Next]_bvars
=============================================================================
