------------------------------ MODULE MCKoreApi ------------------------------
(* Instances of KoreApi for TLC: small prices for the thousands.           *)
EXTENDS KoreApi

CONSTANTS x, y

MCCost == [s \in {"unknown", "verify"} |-> IF s = "verify" THEN 2 ELSE 1]
MCGarbled == {[balance |-> 1, history |-> <<2>>]}
(* No property speaks of what follows once two dumps are in one text.      *)
MCNotMixed == ~(mingled /\ balances.readable)
MCOwner == [c \in {x, y} |-> IF c = x THEN "t" ELSE "u"]
=============================================================================
