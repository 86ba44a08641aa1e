----------------------------- MODULE MCLightning -----------------------------
(* Lightning for TLC: two owners with a wallet each, and a choice of each mode; *)
(* an address is sent along with hosted mode, which does not ask for one.      *)
EXTENDS Lightning

CONSTANTS alice, bob, aliceWallet, bobWallet

SmallKeeper == [w \in Wallets |-> IF w = aliceWallet THEN alice ELSE bob]

SmallChoices == {u \in Updates : u.mode \in {"nwc", "disabled"} <=> u.proxy = NoWallet}
=============================================================================
