----------------------------- MODULE MCDelivery -----------------------------
(***************************************************************************)
(* Two sellers, each configured with any of the report sources in Paths:   *)
(* all three in the general run, the broker alone in the run that asks     *)
(* what the broker's findings are.                                         *)
(***************************************************************************)
EXTENDS Delivery

CONSTANTS s1, s2
=============================================================================
