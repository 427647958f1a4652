---------------------------- MODULE MCTransfers ----------------------------
(* Two transfers that share a coin, a foreign transaction that takes the    *)
(* other coin of the first.                                                 *)
EXTENDS Transfers, TLC

CONSTANTS a, b, f, c1, c2

MCSpends == (a :> {c1, c2}) @@ (b :> {c1}) @@ (f :> {c2})
=============================================================================
