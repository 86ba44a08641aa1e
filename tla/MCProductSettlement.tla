------------------------- MODULE MCProductSettlement -------------------------
(* ProductSettlement for TLC: a top-up, a bundle of two quotas, a free trial *)
(* and a product that grants no quota.                                       *)
EXTENDS ProductSettlement

CONSTANTS topup, bundle, trial, name, storage, seats

SmallPayload == [p \in Products |->
  CASE p = bundle -> {storage, seats}
    [] p = name -> {}
    [] OTHER -> {storage}]

SmallWindow == [p \in Products |-> IF p = topup THEN "days" ELSE "none"]
=============================================================================
