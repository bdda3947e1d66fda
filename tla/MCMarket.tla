------------------------------ MODULE MCMarket ------------------------------
(***************************************************************************)
(* Two sellers.  The first asks for arbitrated settlement and its price    *)
(* may change from one request to the next.                                *)
(***************************************************************************)
EXTENDS Market

CONSTANTS s1, s2, w1, w2

MCWalletOf == [s \in Sellers |-> IF s = s1 THEN w1 ELSE w2]
MCQuotes == [s \in Sellers |-> IF s = s1 THEN {1, 2} ELSE {1}]
MCFixedQuotes == [s \in Sellers |-> {1}]
=============================================================================
