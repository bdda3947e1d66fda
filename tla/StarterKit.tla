----------------------------- MODULE StarterKit -----------------------------
(***************************************************************************)
(* What AuditMesh was forked from: the market of the starter's agents, and *)
(* the three ways of paying per request.  They share the chain alone, on   *)
(* which every payment has a reference of its own, so a behaviour uses one *)
(* of them.                                                                *)
(***************************************************************************)
EXTENDS Integers, Sequences, FiniteSets

CONSTANTS
  Buyers, Curl, Seller, Stranger, Price, Budget, MaxTurns, MaxRefs,
  Sellers, Quotes, Threads, MaxAsks, BrokerMax, Percent,
  Tabs, Fronts, MaxThreads, MaxSessions,
  MarketSellers, WalletOf, Floor, Expected, Arbitrated, MaxRound, MaxWants, MaxFaults, Nobody

VARIABLES
  side, \* which of them
  pending, issued, call, buyer, transfers, served,
  broker, mentions, due, asks, charge, spent, earned, resold,
  session, orders, running, http, tab, thread, made, overlap,
  pc, round, bids, winner, terms, quoted, awarded, job, unread, threads, chain,
  restarts, crashes, deposits, works, releases

http402 == INSTANCE Quickstart
swarm == INSTANCE Broker
checkout == INSTANCE Bridge
market == INSTANCE Starter WITH Sellers <- MarketSellers, mentions <- unread

quickVars == <<pending, issued, call, buyer, transfers, served>>
brokerVars == <<broker, mentions, due, asks, charge, spent, earned, resold>>
bridgeVars == <<session, orders, running, http, tab, thread, made, overlap>>
marketVars == <<pc, round, bids, winner, terms, quoted, awarded, job, unread, threads, chain,
                restarts, crashes, deposits, works, releases>>
vars == <<side, quickVars, brokerVars, bridgeVars, marketVars>>

ASSUME StarterKitAssumption ==
  /\ http402!QuickstartAssumption /\ swarm!BrokerAssumption
  /\ checkout!BridgeAssumption /\ market!StarterAssumption

Init ==
  /\ side \in {"http402", "swarm", "checkout", "market"}
  /\ http402!QuickInit /\ swarm!BrokerInit /\ checkout!BridgeInit /\ market!Init
  /\ side # "http402" => \A b \in Buyers : buyer[b].guarded

Quickstart == side = "http402" /\ http402!QuickNext
              /\ UNCHANGED <<side, brokerVars, bridgeVars, marketVars>>
Broker == side = "swarm" /\ swarm!BrokerNext
          /\ UNCHANGED <<side, quickVars, bridgeVars, marketVars>>
Bridge == side = "checkout" /\ checkout!BridgeNext
          /\ UNCHANGED <<side, quickVars, brokerVars, marketVars>>
Market == side = "market" /\ market!Next
          /\ UNCHANGED <<side, quickVars, brokerVars, bridgeVars>>

Next == Quickstart \/ Broker \/ Bridge \/ Market

Spec == Init /\ [][Next]_vars
-----------------------------------------------------------------------------
\* The server serves a reference that was paid (Quickstart.tla).
ServedIsPaid == http402!ServedIsPaid

\* A buyer that is led by a model stays in its budget (Quickstart.tla).
GuardedSpend == http402!GuardedSpend

\* "One-shot" references (quickstart/server.ts:33): the server serves each of them
\* at most once (Quickstart.tla).
ReferenceIsOneShot == http402!ReferenceIsOneShot

\* What the broker resold was paid with the markup on the price its seller named,
\* and it charges only for what it bought (Broker.tla).
ResalePaysTheMarkup == swarm!ResalePaysTheMarkup /\ swarm!ChargesForBoughtData

\* "The broker keeps the spread" (broker/src/index.ts:9): no resale brings in less
\* than was paid for the data (Broker.tla).
BrokerKeepsTheSpread == swarm!BrokerKeepsTheSpread

\* A paid order can be asked for until it is delivered (Bridge.tla).
PaidOrderIsKept == checkout!PaidOrderIsKept

\* A seller of the market that worked was paid or its money is still locked
\* (Starter.tla).
WorkIsBacked == market!WorkIsBacked

\* The market's buyer pays the bid it chose, for work (Starter.tla).
PaysTheBidForTheWork == market!PaysTheBidForTheWork

\* The feed shows a round settled that was paid (Starter.tla, Feed.tla).
FeedShowsThePaid == market!FeedShowsThePaid
=============================================================================
