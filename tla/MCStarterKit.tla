----------------------------- MODULE MCStarterKit -----------------------------
(***************************************************************************)
(* Two sellers for the broker, which quote 0.2 micro-SOL, of which the     *)
(* markup leaves nothing; 1.3, asking for 2.4; or 2, asking for 3, which   *)
(* is over the broker's limit.  And a market of two sellers, with floors   *)
(* of one and two, that are paid into one wallet, as the personas of the   *)
(* demo.                                                                   *)
(***************************************************************************)
EXTENDS StarterKit

CONSTANTS s1, s2, w

Quote(price, url) == [price |-> price, url |-> url]
MCQuotes == {Quote(2, 2), Quote(13, 24), Quote(20, 30)}
MCSellers == <<"cheap", "premium">>
MCMarketSellers == {s1, s2}
MCWalletOf == [s \in MCMarketSellers |-> w]
MCFloor == [s \in MCMarketSellers |-> IF s = s1 THEN 1 ELSE 2]
===============================================================================
