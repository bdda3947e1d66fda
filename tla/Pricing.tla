------------------------------- MODULE Pricing -------------------------------
(***************************************************************************)
(* What an audit seller asks (packages/shared/src/cost.ts and the bidder   *)
(* of coral-agents/audit-seller).  The model only writes the pitch, or     *)
(* declines: the price is the cost of the scan with a margin.              *)
(*                                                                         *)
(* Amounts are counted in grains of a hundred-thousandth SOL, ten to the   *)
(* unit a price is rounded to; every other ratio of the code is scaled up  *)
(* to integers and rounded down to a grain.                                *)
(***************************************************************************)
EXTENDS Scope, Integers

CONSTANTS
  Personas,     \* the sellers' environments: [floor, offers, strategy, mode, efficiency]
  Asked,        \* the lists of codes a buyer is configured with
  Budgets,      \* BUYER_MAX_SOL, in grains
  Sites,        \* the site profiles: [pages, forms, endpoints, params]
  LlmPrice,     \* LLM_EUR_PER_MTOKEN, in hundredths
  SolPrice,     \* SOL_EUR
  Unspecified   \* no surface in the WANT

PricingAssumption ==
  /\ Budgets \subseteq Nat
  /\ Sites \subseteq [pages : Nat, forms : Nat, endpoints : Nat, params : Nat]
  /\ \A p \in Personas : p.floor \in Nat /\ p.efficiency \in Nat
  /\ LlmPrice \in Nat /\ SolPrice \in Nat \ {0}
  /\ Unspecified \notin Sites

VARIABLES want, seller, bid
pricingVars == <<want, seller, bid>>
-------------------------------------------------------------------------------
\* Tokens in tenths of a million, before the surface.
BASE_TOKENS == [quick |-> 5, standard |-> 15, deep |-> 40]
SURFACE_K == 600
MARGIN_BY_STRATEGY == [discount |-> 20, specialist |-> 24, premium |-> 26]

\* In tenths: a form or an endpoint counts twice, a parameter a tenth.
surfaceScore(s) == 10 * s.pages + 20 * s.forms + 20 * s.endpoints + s.params

AtLeast(low, x) == IF x < low THEN low ELSE x
AtMost(high, x) == IF x > high THEN high ELSE x

\* The cost of the scan in grains: efficiency is in hundredths, and at
\* least ten of them.
estimateScanCost(mode, surface, efficiency) ==
  LET factor == SURFACE_K + IF surface = Unspecified THEN 0 ELSE surfaceScore(surface)
  IN  (BASE_TOKENS[mode] * factor * AtLeast(10, efficiency) * LlmPrice) \div (SURFACE_K * SolPrice)

\* To the nearest tenth of a milli-SOL, a half upwards.
round4(x) == 10 * ((x + 5) \div 10)

priceFromCost(cost, margin, floor, budget) ==
  round4(AtMost(budget, AtLeast(floor, (cost * margin) \div 10)))
-------------------------------------------------------------------------------
\* A persona whose list names nothing known offers everything.
parseCategories(csv) ==
  LET named == Range(csv) \cap AllCategories
  IN  IF named = {} THEN AllCategories ELSE named

\* What does not name a strategy or a depth falls back.
sellerConfigFromEnv(env) ==
  [floor |-> env.floor, offers |-> parseCategories(env.offers), efficiency |-> env.efficiency,
   strategy |-> IF env.strategy \in DOMAIN MARGIN_BY_STRATEGY THEN env.strategy ELSE "premium",
   mode |-> IF env.mode \in DOMAIN BASE_TOKENS THEN env.mode ELSE "quick"]

effective(w) ==
  LET requested == decodeScopeArg(w.arg)
  IN  IF requested = <<>> THEN {Headers} ELSE Range(requested)

NoBid == [bid |-> FALSE, price |-> 0, covers |-> {}]

Fits(w, cfg) ==
  LET covered == effective(w) \cap cfg.offers
  IN  /\ w.service = "audit" /\ cfg.floor <= w.budget
      /\ cfg.strategy = "specialist" => effective(w) \subseteq cfg.offers
      /\ covered # {}

PriceOf(w, cfg, cost) ==
  priceFromCost(cost, MARGIN_BY_STRATEGY[cfg.strategy], cfg.floor, w.budget)

\* A variant that does not look at what the scan costs it.
decideBidAtAnyCost(w, cfg, willing) ==
  LET cost == estimateScanCost(cfg.mode, w.surface, cfg.efficiency)
  IN  IF ~ Fits(w, cfg) \/ ~ willing THEN NoBid
      ELSE [bid |-> TRUE, price |-> round4(PriceOf(w, cfg, cost)),
            covers |-> effective(w) \cap cfg.offers]

\* `willing` is the model's answer; an unreadable one counts as yes.
decideBid(w, cfg, willing) ==
  LET cost == estimateScanCost(cfg.mode, w.surface, cfg.efficiency)
  IN  IF ~ Fits(w, cfg) \/ round4(cost) > w.budget \/ ~ willing THEN NoBid
      ELSE [bid |-> TRUE, price |-> round4(PriceOf(w, cfg, cost)),
            covers |-> effective(w) \cap cfg.offers]
-------------------------------------------------------------------------------
NoWant == [service |-> "none", arg |-> <<>>, budget |-> 0, surface |-> Unspecified]

PricingInit ==
  /\ want = NoWant /\ bid = NoBid
  /\ seller \in {sellerConfigFromEnv(env) : env \in Personas}

\* The buyer's next WANT: the arg of this market, or that of another one.
FormatWant ==
  /\ \E asked \in Asked, service \in {"audit", "txline"},
        budget \in Budgets, surface \in Sites \cup {Unspecified} :
       want' = [service |-> service, budget |-> budget, surface |-> surface,
                arg |-> IF service = "audit" THEN encodeScopeArg(decodeScopeArg(asked))
                        ELSE <<"fixtures">>]
  /\ bid' = NoBid /\ UNCHANGED seller

Decide ==
  /\ want # NoWant
  /\ \E willing \in BOOLEAN : bid' = decideBid(want, seller, willing)
  /\ UNCHANGED <<want, seller>>

PricingNext == FormatWant \/ Decide
PricingSpec == PricingInit /\ [][PricingNext]_pricingVars
-------------------------------------------------------------------------------
\* A price of four decimals, as the floors of the manifests have them.
FourDecimals(x) == x % 10 = 0

\* No bid is made at a loss or outside the lane: the price covers the break-even
\* price that the seller reckons for this site at its depth, whatever margin,
\* floor and budget do to it; a floor and a budget of four decimals are kept to
\* the grain; and a specialist covers all that is asked (cost.ts:62-73,
\* audit-seller/src/bidder.ts:92-150).
NoBidAtALoss ==
  bid.bid =>
    /\ bid.price >= round4(estimateScanCost(seller.mode, want.surface, seller.efficiency))
    /\ FourDecimals(seller.floor) => bid.price >= seller.floor
    /\ FourDecimals(want.budget) => bid.price <= want.budget
    /\ bid.covers # {} /\ bid.covers \subseteq effective(want)
    /\ seller.strategy = "specialist" => bid.covers = effective(want)

\* What bidder.ts:6-8 says of any bid: "never below its cost floor, never above
\* the buyer's budget".
BidWithinFloorAndBudget ==
  bid.bid => seller.floor <= bid.price /\ bid.price <= want.budget
===============================================================================
