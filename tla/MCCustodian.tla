---------------------------- MODULE MCCustodian ----------------------------
(* One receive the wallet detects and one, of two assets, by mailbox.       *)
EXTENDS Custodian

CONSTANTS w, m, x, y

MCOutputs == [r \in {w, m} |-> IF r = w THEN {x} ELSE {x, y}]
=============================================================================
