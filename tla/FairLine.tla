------------------------------- MODULE FairLine -------------------------------
(***************************************************************************)
(* The reading of a TxODDS odds snapshot: which market is shown, its fair  *)
(* line and its favourite, as the agent, the proxy, the browser and the    *)
(* starter seller each compute it.                                         *)
(*                                                                         *)
(* A market is [x12, named, names, pct]: whether its type contains "1X2",  *)
(* whether it has PriceNames at all, these (none, when it has not) and     *)
(* their percentages.  A percentage is counted in tenths of a percent; NA  *)
(* stands for every value Number() turns into NaN.                         *)
(***************************************************************************)
EXTENDS Integers, Sequences, SequencesExt

NA == -1

PctAt(m, i) == IF i <= Len(m.pct) THEN m.pct[i] ELSE NA

hasFinitePrice(m) == \E i \in DOMAIN m.names : PctAt(m, i) # NA

NoMarket == [x12 |-> FALSE, named |-> FALSE, names |-> <<>>, pct |-> <<>>]

\* The first market of the snapshot that passes, as Array.find returns it.
FindMarket(odds, Test(_)) ==
  LET found == SelectSeq(odds, Test)
  IN  IF found = <<>> THEN NoMarket ELSE Head(found)

\* A 1X2 market with a finite price, else any market with one.
BestMarket(odds) ==
  LET m == FindMarket(odds, LAMBDA x : x.x12 /\ hasFinitePrice(x))
  IN  IF m # NoMarket THEN m ELSE FindMarket(odds, hasFinitePrice)

has1x2(odds) == \E i \in DOMAIN odds : odds[i].x12 /\ hasFinitePrice(odds[i])

NoOutcome == [name |-> "none", pct |-> 0]

Priced(m) == [i \in DOMAIN m.names |-> [name |-> m.names[i], pct |-> PctAt(m, i)]]

\* reduce with a strict comparison: among equals the first stays.
Highest(outcomes, start) ==
  FoldLeft(LAMBDA best, o : IF o.pct > best.pct THEN o ELSE best, start, outcomes)

\* agent/edge.ts: the outcomes with a positive price, and the best of them.
fairOutcomes(m) == SelectSeq(Priced(m), LAMBDA o : o.pct > 0)
Favourite(m) == Highest(fairOutcomes(m), NoOutcome)

\* 100 / probability to two decimals: hundredths, from tenths of a percent.
fairOdds(pct) == (200000 + pct) \div (2 * pct)

\* server/proxy.ts: what an order commits to, NoOutcome when nothing is priced.
favouriteOf(odds) == Favourite(BestMarket(odds))

\* web/app.js, Board: every finite price counts, also one of zero.
BoardFavourite(odds) ==
  LET m == BestMarket(odds)
  IN  Highest(Priced(m), [name |-> "none", pct |-> NA])

\* web/app.js, clientEdge: the 1X2 row is taken whether it is priced or not.
clientMarket(odds) ==
  LET m == FindMarket(odds, LAMBDA x : x.x12)
  IN  IF m # NoMarket THEN m ELSE FindMarket(odds, hasFinitePrice)

\* web/app.js, mkt: a row of the sample board.
mkt(pct) == [x12 |-> TRUE, named |-> TRUE, names |-> <<"part1", "draw", "part2">>, pct |-> pct]

\* seller-agent/src/service.ts: a 1X2 row or nothing, every finite price.
deterministicRead(odds) ==
  Highest(Priced(FindMarket(odds, LAMBDA x : x.x12)), [name |-> "none", pct |-> NA])
===============================================================================
