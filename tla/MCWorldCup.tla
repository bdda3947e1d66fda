------------------------------ MODULE MCWorldCup ------------------------------
(***************************************************************************)
(* Two fixtures.  The 1X2 market of one moves: it favours the home side,   *)
(* is not priced, as the free tier's often is not, or has no price names.  *)
(***************************************************************************)
EXTENDS WorldCup

CONSTANTS f1, f2, r1, r2

Home == <<mkt(<<624, 221, 155>>)>>
Totals == [x12 |-> FALSE, named |-> TRUE, names |-> <<"over", "under">>, pct |-> <<530, 470>>]
Goals == <<mkt(<<NA, NA, NA>>), Totals>>
Bare == <<[NoMarket EXCEPT !.x12 = TRUE], Totals>>

MCSymmetry == Permutations(Slots)
MCOrder == <<f1, f2>>
MCMovingQuotes == [f \in {f1, f2} |-> IF f = f1 THEN {Home, Goals, Bare} ELSE {Home}]
===============================================================================
