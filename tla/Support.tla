-------------------------------- MODULE Support --------------------------------
(***************************************************************************)
(* What surrounds a deal: the price a seller asks, the consent it is       *)
(* given, the report it hands over, and the demo with its dashboard.  They *)
(* share no state, so a behaviour is about one of them.                    *)
(***************************************************************************)
EXTENDS Integers, Sequences, FiniteSets

CONSTANTS
  Categories, Personas, Asked, Budgets, Sites, LlmPrice, SolPrice, Unspecified,
  Allowlisted, Elsewhere, Scopes, Depths, Nonces, Ttl, MaxClock, BuyerKey, OtherKey, Nothing,
  Entries, Outputs, Missing,
  Rounds, Nobody, Script, Slots, MaxClicks, Envs, MaxRuns

VARIABLES
  side, \* which of them
  want, seller, bid,
  clock, published, config, arg, signed, wire, verdict, rules, begun,
  output, findings, delivered, prebaked,
  created, live, log, feed, tab, polls, starting, clicks,
  env, demo, token, auditNonce

pricing == INSTANCE Pricing
consent == INSTANCE Consent
report == INSTANCE Report
stage == INSTANCE Demo

pricingVars == <<want, seller, bid>>
consentVars == <<clock, published, config, arg, signed, wire, verdict, rules, begun>>
reportVars == <<output, findings, delivered, prebaked>>
demoVars == <<created, live, log, feed, tab, polls, starting, clicks, env, demo, token, auditNonce>>
vars == <<side, pricingVars, consentVars, reportVars, demoVars>>

ASSUME SupportAssumption ==
  /\ pricing!PricingAssumption /\ consent!ConsentAssumption
  /\ report!ReportAssumption /\ stage!DemoAssumption
--------------------------------------------------------------------------------
\* The sides that are not looked at begin in a state of their own.
Init ==
  /\ side \in {"pricing", "consent", "report", "demo"}
  /\ pricing!PricingInit /\ consent!ConsentInit /\ report!ReportInit /\ stage!DemoInit
  /\ side # "pricing" => seller = CHOOSE s \in {pricing!sellerConfigFromEnv(p) : p \in Personas} : TRUE
  /\ side # "consent" => /\ \A m \in DOMAIN published : published[m] = Nothing
                         /\ config = CHOOSE c \in consent!Configs : TRUE
  /\ side # "demo" => env = CHOOSE e \in Envs : TRUE

Pricing == side = "pricing" /\ pricing!PricingNext
           /\ UNCHANGED <<side, consentVars, reportVars, demoVars>>
Consent == side = "consent" /\ consent!ConsentNext
           /\ UNCHANGED <<side, pricingVars, reportVars, demoVars>>
Report == side = "report" /\ report!ReportNext
          /\ UNCHANGED <<side, pricingVars, consentVars, demoVars>>
Demo == side = "demo" /\ stage!DemoNext
        /\ UNCHANGED <<side, pricingVars, consentVars, reportVars>>

Next == Pricing \/ Consent \/ Report \/ Demo

\* On the other sides the dashboard stands still, its actions enabled or not.
Fairness == side = "demo" => stage!DashboardFairness

Spec == Init /\ [][Next]_vars /\ Fairness
--------------------------------------------------------------------------------
\* No bid is made at a loss or outside the lane (Pricing.tla).
NoBidAtALoss == pricing!NoBidAtALoss

\* No bid is below the seller's floor or above the buyer's budget (Pricing.tla).
BidWithinFloorAndBudget == pricing!BidWithinFloorAndBudget

\* The engine works within the consent that was given (Consent.tla).
EngineKeepsTheGrant == consent!EngineKeepsTheGrant

\* The report that is delivered adds up (Report.tla).
ReportAddsUp == report!ReportAddsUp

\* When the demo says it is live, it is (Demo.tla).
DoneMeansOneLiveMarket == stage!DoneMeansOneLiveMarket

\* No audit of an earlier run lives beside the one that is live (Demo.tla).
NoPriorSessionLingers == stage!NoPriorSessionLingers

\* The views of the dashboard do not contradict each other (Dashboard.tla).
ViewsAgree == stage!ViewsAgree

\* The dashboard comes to show what was said (Dashboard.tla).
CatchesUp == side = "demo" => stage!CatchesUp
================================================================================
