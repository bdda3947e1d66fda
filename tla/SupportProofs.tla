---------------------------- MODULE SupportProofs ----------------------------
(***************************************************************************)
(* Proofs about what surrounds a deal: the price of an audit seller, the   *)
(* grant that the engine is started with, the demo that starts it all, the *)
(* report that is handed over, and the views of the dashboard.             *)
(***************************************************************************)
EXTENDS Support, FoldLemmas

Strategies == {"discount", "specialist", "premium"}
Modes == {"quick", "standard", "deep"}

PricingConstants ==
  /\ Budgets \subseteq Nat
  /\ Sites \subseteq [pages : Nat, forms : Nat, endpoints : Nat, params : Nat]
  /\ \A p \in Personas : p.floor \in Nat /\ p.efficiency \in Nat
  /\ LlmPrice \in Nat /\ SolPrice \in Nat /\ SolPrice > 0

\* A seller's configuration and a WANT, as far as the price depends on them.
Configured(cfg) ==
  cfg.floor \in Nat /\ cfg.efficiency \in Nat /\ cfg.strategy \in Strategies /\ cfg.mode \in Modes
Priceable(w) == w.budget \in Nat /\ w.surface \in Sites \cup {Unspecified}

\* The bid on the table answers the WANT at hand.
PricingInv ==
  /\ Configured(seller) /\ Priceable(want)
  /\ bid = pricing!NoBid \/ bid = pricing!decideBid(want, seller, TRUE)

LEMMA PricingConstantsHold == SupportAssumption => PricingConstants
  BY DEF SupportAssumption, pricing!PricingAssumption, PricingConstants

-----------------------------------------------------------------------------
\* What rounding to four decimals does: half a unit at most, in order, and
\* nothing to what is rounded (packages/shared/src/cost.ts:72).
LEMMA Rounding ==
  /\ \A x \in Nat : pricing!round4(x) \in Nat /\ x <= pricing!round4(x) + 4 /\ pricing!round4(x) <= x + 5
  /\ \A x, y \in Nat : x <= y => pricing!round4(x) <= pricing!round4(y)
  /\ \A x \in Nat : pricing!round4(pricing!round4(x)) = pricing!round4(x)
  /\ \A x \in Nat : pricing!FourDecimals(x) => pricing!round4(x) = x
  <1>1. \A x \in Nat : pricing!round4(x) \in Nat /\ x <= pricing!round4(x) + 4 /\ pricing!round4(x) <= x + 5
    BY DEF pricing!round4
  <1>2. \A x, y \in Nat : x <= y => pricing!round4(x) <= pricing!round4(y)
    BY DEF pricing!round4
  <1>3. \A x \in Nat : pricing!round4(pricing!round4(x)) = pricing!round4(x)
    BY DEF pricing!round4
  <1>4. \A x \in Nat : pricing!FourDecimals(x) => pricing!round4(x) = x
    BY DEF pricing!round4, pricing!FourDecimals
  <1> QED BY <1>1, <1>2, <1>3, <1>4

\* The cost of a scan is a number, and every strategy at least doubles it.
LEMMA CostIsNatural ==
  ASSUME PricingConstants, NEW mode \in Modes, NEW surface \in Sites \cup {Unspecified}, NEW e \in Nat
  PROVE  pricing!estimateScanCost(mode, surface, e) \in Nat
  <1>. DEFINE tokens == pricing!BASE_TOKENS[mode]
              factor == pricing!SURFACE_K +
                        IF surface = Unspecified THEN 0 ELSE pricing!surfaceScore(surface)
              effort == pricing!AtLeast(10, e)
  <1>1. tokens \in Nat
    BY DEF Modes, pricing!BASE_TOKENS
  <1>2. factor \in Nat
    <2>1. CASE surface = Unspecified
      BY <2>1 DEF pricing!SURFACE_K
    <2>2. CASE surface \in Sites
      BY <2>2 DEF PricingConstants, pricing!surfaceScore, pricing!SURFACE_K
    <2> QED BY <2>1, <2>2
  <1>3. effort \in Nat
    BY DEF pricing!AtLeast
  <1>4. pricing!estimateScanCost(mode, surface, e) =
          (tokens * factor * effort * LlmPrice) \div (pricing!SURFACE_K * SolPrice)
    BY DEF pricing!estimateScanCost
  <1>. HIDE DEF tokens, factor, effort
  <1>5. tokens * factor \in Nat
    BY <1>1, <1>2
  <1>6. tokens * factor * effort \in Nat
    BY <1>3, <1>5
  <1>7. tokens * factor * effort * LlmPrice \in Nat
    BY <1>6 DEF PricingConstants
  <1>8. pricing!SURFACE_K * SolPrice \in Nat /\ pricing!SURFACE_K * SolPrice > 0
    BY DEF PricingConstants, pricing!SURFACE_K
  <1>9. \A a, b \in Nat : b > 0 => a \div b \in Nat
    OBVIOUS
  <1> QED BY <1>4, <1>7, <1>8, <1>9

LEMMA MarginDoubles ==
  \A s \in Strategies : pricing!MARGIN_BY_STRATEGY[s] \in Nat /\ pricing!MARGIN_BY_STRATEGY[s] >= 20
  BY DEF Strategies, pricing!MARGIN_BY_STRATEGY

\* A price that is rounded once more is the same, covers the rounded cost and
\* keeps to a floor and a budget that rounding leaves alone.
LEMMA PriceCoversCost ==
  ASSUME NEW cost \in Nat, NEW margin \in Nat, margin >= 20, NEW floor \in Nat, NEW budget \in Nat,
         floor <= budget, pricing!round4(cost) <= budget
  PROVE  LET price == pricing!round4(pricing!priceFromCost(cost, margin, floor, budget))
         IN  /\ price >= pricing!round4(cost)
             /\ pricing!FourDecimals(floor) => price >= floor
             /\ pricing!FourDecimals(budget) => price <= budget
  <1>. DEFINE marked == (cost * margin) \div 10
              raised == pricing!AtLeast(floor, marked)
              capped == pricing!AtMost(budget, raised)
  <1>1. marked \in Nat /\ marked >= cost
    <2>1. cost * margin \in Nat /\ cost * margin >= cost * 20
      OBVIOUS
    <2>2. \A a \in Nat : a >= cost * 20 => a \div 10 \in Nat /\ a \div 10 >= cost
      OBVIOUS
    <2> QED BY <2>1, <2>2
  <1>. HIDE DEF marked
  <1>2. raised \in Nat /\ raised >= floor /\ raised >= marked
    BY <1>1 DEF pricing!AtLeast
  <1>. HIDE DEF raised
  <1>3. capped \in Nat /\ capped >= floor /\ capped <= budget /\ (capped >= cost \/ capped = budget)
    BY <1>1, <1>2 DEF pricing!AtMost
  <1>4. pricing!priceFromCost(cost, margin, floor, budget) = pricing!round4(capped)
    BY DEF pricing!priceFromCost, marked, raised
  <1>. HIDE DEF capped
  <1>5. pricing!round4(pricing!round4(capped)) = pricing!round4(capped)
    BY <1>3, Rounding
  <1>6. pricing!round4(capped) >= pricing!round4(cost)
    <2>1. CASE capped >= cost
      BY <1>3, <2>1, Rounding
    <2>2. CASE capped = budget
      BY <2>2, Rounding
    <2> QED BY <1>3, <2>1, <2>2
  <1>7. /\ pricing!FourDecimals(floor) => pricing!round4(capped) >= floor
        /\ pricing!FourDecimals(budget) => pricing!round4(capped) <= budget
    <2>1. /\ pricing!round4(floor) <= pricing!round4(capped)
          /\ pricing!round4(capped) <= pricing!round4(budget)
      BY <1>3, Rounding
    <2> QED BY <2>1, Rounding
  <1> QED BY <1>3, <1>4, <1>5, <1>6, <1>7

-----------------------------------------------------------------------------
\* What decideBid returns when the model is willing.
LEMMA DecidedBid ==
  ASSUME PricingConstants, NEW w, NEW cfg, Priceable(w), Configured(cfg),
         NEW b, b = pricing!decideBid(w, cfg, TRUE), b # pricing!NoBid
  PROVE  /\ b.price >= pricing!round4(pricing!estimateScanCost(cfg.mode, w.surface, cfg.efficiency))
         /\ pricing!FourDecimals(cfg.floor) => b.price >= cfg.floor
         /\ pricing!FourDecimals(w.budget) => b.price <= w.budget
         /\ b.covers # {} /\ b.covers \subseteq pricing!effective(w)
         /\ cfg.strategy = "specialist" => b.covers = pricing!effective(w)
  <1>. DEFINE cost == pricing!estimateScanCost(cfg.mode, w.surface, cfg.efficiency)
              margin == pricing!MARGIN_BY_STRATEGY[cfg.strategy]
  <1>1. cost \in Nat
    BY CostIsNatural DEF Priceable, Configured
  <1>2. margin \in Nat /\ margin >= 20
    BY MarginDoubles DEF Configured
  <1>3. /\ pricing!Fits(w, cfg) /\ ~ pricing!round4(cost) > w.budget
        /\ b = [bid |-> TRUE, price |-> pricing!round4(pricing!PriceOf(w, cfg, cost)),
                covers |-> pricing!effective(w) \cap cfg.offers]
    BY DEF pricing!decideBid
  <1>4. /\ b.price = pricing!round4(pricing!priceFromCost(cost, margin, cfg.floor, w.budget))
        /\ b.covers = pricing!effective(w) \cap cfg.offers
    <2>. DEFINE asked == pricing!round4(pricing!PriceOf(w, cfg, cost))
                covered == pricing!effective(w) \cap cfg.offers
    <2>1. asked = pricing!round4(pricing!priceFromCost(cost, margin, cfg.floor, w.budget))
      BY DEF pricing!PriceOf
    <2>2. b = [bid |-> TRUE, price |-> asked, covers |-> covered]
      BY <1>3
    <2>. HIDE DEF asked, covered
    <2>3. b.price = asked /\ b.covers = covered
      <3>1. \A x, y : LET r == [bid |-> TRUE, price |-> x, covers |-> y] IN r.price = x /\ r.covers = y
        OBVIOUS
      <3> QED BY <2>2, <3>1, Zenon
    <2> QED BY <2>1, <2>3 DEF covered
  <1>5. /\ cfg.floor <= w.budget /\ pricing!effective(w) \cap cfg.offers # {}
        /\ cfg.strategy = "specialist" => pricing!effective(w) \subseteq cfg.offers
    BY <1>3 DEF pricing!Fits
  <1>6. pricing!round4(cost) <= w.budget /\ cfg.floor \in Nat /\ w.budget \in Nat
    BY <1>1, <1>3, Rounding DEF Priceable, Configured
  <1>. HIDE DEF cost, margin
  <1>. DEFINE asked == pricing!round4(pricing!priceFromCost(cost, margin, cfg.floor, w.budget))
  <1>7. /\ asked >= pricing!round4(cost)
        /\ pricing!FourDecimals(cfg.floor) => asked >= cfg.floor
        /\ pricing!FourDecimals(w.budget) => asked <= w.budget
    <2>1. cfg.floor \in Nat /\ w.budget \in Nat /\ cfg.floor <= w.budget
      BY <1>5, <1>6
    <2> QED BY <1>1, <1>2, <1>6, <2>1, PriceCoversCost
  <1>8. b.price = asked
    BY <1>4
  <1>. HIDE DEF asked
  <1> QED BY <1>4, <1>5, <1>7, <1>8 DEF cost

LEMMA PricingInitial == ASSUME PricingConstants, Init PROVE PricingInv
  <1>1. /\ want = pricing!NoWant /\ bid = pricing!NoBid
        /\ seller \in {pricing!sellerConfigFromEnv(env_) : env_ \in Personas}
    BY DEF Init, pricing!PricingInit
  <1>2. PICK p \in Personas : seller = pricing!sellerConfigFromEnv(p)
    BY <1>1
  <1>3. Configured(seller)
    BY <1>2 DEF Configured, PricingConstants, pricing!sellerConfigFromEnv, Strategies, Modes,
       pricing!MARGIN_BY_STRATEGY, pricing!BASE_TOKENS
  <1>4. Priceable(want)
    BY <1>1 DEF Priceable, pricing!NoWant
  <1> QED BY <1>1, <1>3, <1>4 DEF PricingInv

LEMMA PricingPreserved == ASSUME PricingConstants, PricingInv, [Next]_vars PROVE PricingInv'
  <1>1. ASSUME pricing!FormatWant PROVE PricingInv'
    <2>1. bid' = pricing!NoBid /\ UNCHANGED seller /\ Priceable(want')
      BY <1>1 DEF pricing!FormatWant, Priceable, PricingConstants
    <2> QED BY <2>1 DEF PricingInv, Configured, Priceable
  <1>2. ASSUME pricing!Decide PROVE PricingInv'
    <2>1. UNCHANGED <<want, seller>>
      BY <1>2 DEF pricing!Decide
    <2>2. PICK willing \in BOOLEAN : bid' = pricing!decideBid(want, seller, willing)
      BY <1>2 DEF pricing!Decide
    <2>3. CASE willing = TRUE
      BY <2>1, <2>2, <2>3 DEF PricingInv, Configured, Priceable
    <2>4. CASE willing = FALSE
      BY <2>1, <2>2, <2>4 DEF PricingInv, Configured, Priceable, pricing!decideBid
    <2> QED BY <2>3, <2>4
  <1>3. CASE UNCHANGED pricingVars
    BY <1>3 DEF pricingVars, PricingInv, Configured, Priceable
  <1> QED
    BY <1>1, <1>2, <1>3 DEF Next, Pricing, pricing!PricingNext, Consent, Report, Demo, vars

\* No bid is made below its break-even price, outside the lane or for less than
\* a specialist is asked for, and floors and budgets of four decimals are kept,
\* whatever the costs, sites, budgets and personas.
THEOREM NoSellerBidsAtALoss == Spec => []NoBidAtALoss
  <1>1. PricingInv => NoBidAtALoss
    <2>1. SUFFICES ASSUME PricingInv, bid.bid PROVE NoBidAtALoss
      BY DEF NoBidAtALoss, pricing!NoBidAtALoss
    <2>2. bid # pricing!NoBid
      BY <2>1 DEF pricing!NoBid
    <2>3. bid = pricing!decideBid(want, seller, TRUE)
      BY <2>1, <2>2 DEF PricingInv
    <2> QED
      BY <2>1, <2>2, <2>3, DecidedBid, PricingConstantsHold, SupportAssumption
      DEF PricingInv, NoBidAtALoss, pricing!NoBidAtALoss
  <1>2. Init => PricingInv
    BY PricingInitial, PricingConstantsHold, SupportAssumption
  <1>3. PricingInv /\ [Next]_vars => PricingInv'
    BY PricingPreserved, PricingConstantsHold, SupportAssumption
  <1> QED BY <1>1, <1>2, <1>3, PTL DEF Spec
-----------------------------------------------------------------------------
Codes == consent!decodeScopeArg(config.asked)
GrantedScope == [categories |-> Codes, maxDepth |-> config.depth,
                 maxDurationSeconds |-> 900, nonDestructive |-> TRUE]
Payload(t) == [target |-> config.target, buyerPubkey |-> BuyerKey, scope |-> GrantedScope,
               ownershipProof |-> consent!buildOwnershipProof(config.method, config.nonce, config.target),
               issuedAt |-> t, validUntil |-> t + Ttl]
Token(payload, key, hashed) ==
  [payload |-> payload, signature |-> <<key, payload>>, authzHash |-> consent!authorizationHash(hashed)]

\* What is in a sequence is its range.
LEMMA InRange == \A s, x : x \in consent!Range(s) <=> In(x, s)
  BY DEF consent!Range, In

LEMMA ScopeFilters == \A s, P : consent!filter(s, P) = filter(s, P)
  BY DEF consent!filter, filter

\* The codes of a grant survive the way through the WANT.
LEMMA CodesTravel ==
  ASSUME SupportAssumption, NEW asked \in Scopes, NEW codes, codes = consent!decodeScopeArg(asked), codes # <<>>
  PROVE  consent!Range(codes) = consent!Range(consent!decodeScopeArg(consent!encodeScopeArg(codes)))
  <1>1. PICK A : A = consent!AllCategories
    OBVIOUS
  <1>2. Categories \in Seq(A) /\ asked \in Seq(consent!Range(asked)) /\ A = consent!Range(Categories)
    BY <1>1 DEF SupportAssumption, consent!ConsentAssumption, consent!ScopeAssumption, consent!AllCategories
  <1>3. codes = filter(asked, A)
    BY <1>1, ScopeFilters DEF consent!decodeScopeArg
  <1>4. PICK ordered : ordered = filter(Categories, consent!Range(codes))
    OBVIOUS
  <1>5. codes \in Seq(consent!Range(asked)) /\ ordered \in Seq(A)
    BY <1>2, <1>3, <1>4, FilterTyped
  <1>6. \A x : In(x, codes) => x \in A
    BY <1>2, <1>3, InFilter
  <1>7. \A x : In(x, ordered) <=> In(x, codes)
    BY <1>2, <1>4, <1>6, InFilter, InRange
  <1>8. ordered # <<>>
    <2>1. Len(codes) \in Nat \ {0} /\ DOMAIN codes = 1 .. Len(codes)
      BY <1>5, EmptySeq, LenProperties
    <2>2. 1 \in DOMAIN codes
      BY <2>1
    <2>3. In(codes[1], codes)
      BY <2>2 DEF In
    <2>4. PICK i \in DOMAIN ordered : ordered[i] = codes[1]
      BY <1>7, <2>3 DEF In
    <2> QED BY <2>4
  <1>9. consent!encodeScopeArg(codes) = ordered
    BY <1>4, <1>8, ScopeFilters DEF consent!encodeScopeArg
  <1>10. consent!decodeScopeArg(ordered) = ordered
    BY <1>1, <1>5, FilterAll, ScopeFilters DEF consent!decodeScopeArg
  <1> QED BY <1>7, <1>9, <1>10, InRange

Issued == \E t \in Nat : signed = Token(Payload(t), BuyerKey, Payload(t))

\* The engine runs by a grant that was checked when it started.
RulesKept ==
  LET p == signed.payload IN
  /\ wire = signed /\ rules = [target |-> p.target, scope |-> p.scope]
  /\ p.issuedAt <= begun.clock /\ begun.clock <= p.validUntil
  /\ begun.published[p.ownershipProof.method] = config.nonce
  /\ p.target \in Allowlisted
  /\ consent!checkScopeWithinPolicy(p.scope, consent!DEFAULT_SCOPE_POLICY) = {}

\* Each step of the consent rests on the one before.
ConsentInv ==
  /\ config \in consent!Configs /\ clock \in Nat
  /\ arg = Nothing \/ arg = consent!encodeScopeArg(Codes)
  /\ signed # Nothing => Issued /\ Codes # <<>> /\ arg = consent!encodeScopeArg(Codes)
  /\ wire # Nothing => signed # Nothing /\ (consent!verifySignature(wire) = "ok" => wire = signed)
  /\ verdict = "ok" => wire # Nothing
  /\ rules # Nothing => signed # Nothing /\ RulesKept

LEMMA ConsentInitial == ASSUME SupportAssumption, Init PROVE ConsentInv
  BY DEF Init, consent!ConsentInit, ConsentInv, SupportAssumption, consent!ConsentAssumption

\* A token whose hash or payload was changed on the way is not a signed one.
LEMMA AlteredIsRefused ==
  ASSUME NEW P, NEW P1, NEW P2, NEW g,
         g \in {Token(P, BuyerKey, P), [payload |-> P1, signature |-> <<BuyerKey, P>>,
                                        authzHash |-> consent!authorizationHash(P)],
                [payload |-> P2, signature |-> <<BuyerKey, P>>,
                 authzHash |-> consent!authorizationHash(P2)]},
         consent!verifySignature(g) = "ok"
  PROVE  g = Token(P, BuyerKey, P)
  <1>1. g.signature = <<g.payload.buyerPubkey, g.payload>>
    BY DEF consent!verifySignature
  <1>2. g.signature = <<BuyerKey, P>>
    BY DEF Token
  <1>3. g.payload = P
    BY <1>1, <1>2
  <1> QED BY <1>3 DEF Token

LEMMA ArriveKeeps == ASSUME ConsentInv, consent!Arrive PROVE ConsentInv'
  <1>1. /\ signed # Nothing /\ wire = Nothing
        /\ UNCHANGED <<clock, published, config, arg, signed, verdict, rules, begun>>
    BY DEF consent!Arrive
  <1>2. PICK t \in Nat : signed = Token(Payload(t), BuyerKey, Payload(t))
    BY <1>1 DEF ConsentInv, Issued
  <1>. DEFINE P == Payload(t)
              P1 == [P EXCEPT !.validUntil = MaxClock]
              P2 == [P EXCEPT !.buyerPubkey = OtherKey]
              late == [payload |-> P1, signature |-> <<BuyerKey, P>>, authzHash |-> consent!authorizationHash(P)]
              other == [payload |-> P2, signature |-> <<BuyerKey, P>>, authzHash |-> consent!authorizationHash(P2)]
  <1>3. signed.payload = P
    BY <1>2 DEF Token
  <1>4. /\ [signed EXCEPT !.payload.validUntil = MaxClock] = late
        /\ [signed EXCEPT !.payload.buyerPubkey = OtherKey,
                          !.authzHash = consent!authorizationHash([signed.payload EXCEPT !.buyerPubkey = OtherKey])]
           = other
    <2>1. signed = [payload |-> P, signature |-> <<BuyerKey, P>>, authzHash |-> consent!authorizationHash(P)]
      BY <1>2 DEF Token
    <2>. HIDE DEF P
    <2>2. [signed EXCEPT !.payload.validUntil = MaxClock] = late
      BY <2>1
    <2>3. ASSUME NEW h
          PROVE  [signed EXCEPT !.payload.buyerPubkey = OtherKey, !.authzHash = h] =
                   [payload |-> P2, signature |-> <<BuyerKey, P>>, authzHash |-> h]
      <3>1. [signed EXCEPT !.payload.buyerPubkey = OtherKey] =
              [payload |-> P2, signature |-> <<BuyerKey, P>>, authzHash |-> consent!authorizationHash(P)]
        BY <2>1
      <3>2. [signed EXCEPT !.payload.buyerPubkey = OtherKey, !.authzHash = h] =
              [[signed EXCEPT !.payload.buyerPubkey = OtherKey] EXCEPT !.authzHash = h]
        BY <2>1
      <3>3. PICK s2 : s2 = [signed EXCEPT !.payload.buyerPubkey = OtherKey]
        OBVIOUS
      <3>. HIDE DEF P2
      <3>4. [s2 EXCEPT !.authzHash = h] = [payload |-> P2, signature |-> <<BuyerKey, P>>, authzHash |-> h]
        <4>1. s2 = [payload |-> P2, signature |-> <<BuyerKey, P>>, authzHash |-> consent!authorizationHash(P)]
          BY <3>1, <3>3
        <4> QED BY <4>1
      <3> QED BY <3>2, <3>3, <3>4
    <2> QED BY <1>3, <2>2, <2>3
  <1>5. wire' \in {signed, Nothing, late, other}
    BY <1>4 DEF consent!Arrive, consent!decodeGrant
  <1>6. ASSUME wire' # Nothing, consent!verifySignature(wire') = "ok" PROVE wire' = signed
    <2>1. wire' \in {Token(P, BuyerKey, P), late, other}
      BY <1>2, <1>5, <1>6
    <2> QED BY <1>2, <1>6, <2>1, AlteredIsRefused
  <1>7. rules = Nothing /\ verdict # "ok"
    BY <1>1 DEF ConsentInv, RulesKept
  <1>8. Issued' = Issued /\ Codes' = Codes
    BY <1>1 DEF Issued, Payload, GrantedScope, Codes
  <1> QED BY <1>1, <1>6, <1>7, <1>8 DEF ConsentInv

LEMMA DeliverKeeps == ASSUME SupportAssumption, ConsentInv, consent!deliverAudit PROVE ConsentInv'
  <1>1. /\ verdict = "ok" /\ rules = Nothing /\ wire # Nothing /\ signed # Nothing
        /\ UNCHANGED <<clock, published, config, arg, signed, wire>>
        /\ verdict' = consent!verifyAuthorization(wire)
    BY DEF consent!deliverAudit, consent!runAudit, ConsentInv
  <1>2. CASE verdict' = "ok"
    <2>1. /\ consent!verifySignature(wire) = "ok" /\ wire.payload.target \in Allowlisted
          /\ ~ clock < wire.payload.issuedAt /\ ~ clock > wire.payload.validUntil
          /\ consent!checkScopeWithinPolicy(wire.payload.scope, consent!DEFAULT_SCOPE_POLICY) = {}
          /\ consent!verifyDomainControl(wire.payload.ownershipProof)
      BY <1>1, <1>2 DEF consent!verifyAuthorization, consent!isAllowlisted
    <2>2. wire = signed
      BY <1>1, <2>1 DEF ConsentInv
    <2>3. signed.payload.ownershipProof.nonce = config.nonce
      <3>1. PICK t \in Nat : signed = Token(Payload(t), BuyerKey, Payload(t))
        BY <1>1 DEF ConsentInv, Issued
      <3>2. signed.payload = Payload(t)
        BY <3>1 DEF Token
      <3>3. signed.payload.ownershipProof = consent!buildOwnershipProof(config.method, config.nonce, config.target)
        BY <3>2 DEF Payload
      <3> QED BY <3>3 DEF consent!buildOwnershipProof
    <2>4. /\ rules' = [target |-> wire.payload.target, scope |-> wire.payload.scope]
          /\ begun' = [clock |-> clock, published |-> published]
      BY <1>1, <1>2 DEF consent!deliverAudit, consent!runAudit, consent!buildInstruction
    <2>5. begun'.clock = clock /\ begun'.published = published
      BY <2>4
    <2>6. published[signed.payload.ownershipProof.method] = config.nonce
      BY <2>1, <2>2, <2>3 DEF consent!verifyDomainControl
    <2>7. signed.payload.issuedAt <= clock /\ clock <= signed.payload.validUntil
      <3>1. PICK t \in Nat : signed = Token(Payload(t), BuyerKey, Payload(t))
        BY <1>1 DEF ConsentInv, Issued
      <3>2. signed.payload = Payload(t)
        BY <3>1 DEF Token
      <3>3. signed.payload.issuedAt = t /\ signed.payload.validUntil = t + Ttl
        BY <3>2 DEF Payload
      <3>4. clock \in Nat /\ t + Ttl \in Nat
        BY DEF ConsentInv, SupportAssumption, consent!ConsentAssumption
      <3> QED BY <2>1, <2>2, <3>3, <3>4
    <2>8. RulesKept'
      BY <1>1, <2>1, <2>2, <2>4, <2>5, <2>6, <2>7 DEF RulesKept
    <2> QED BY <1>1, <2>8 DEF ConsentInv, Issued, Payload, GrantedScope, Codes, consent!verifySignature
  <1>3. CASE verdict' # "ok"
    <2>1. UNCHANGED rules
      BY <1>3 DEF consent!deliverAudit, consent!runAudit
    <2> QED BY <1>1, <1>3, <2>1 DEF ConsentInv, Issued, Payload, GrantedScope, Codes, consent!verifySignature
  <1> QED BY <1>2, <1>3

LEMMA ConsentStep ==
  ASSUME SupportAssumption, ConsentInv, consent!ConsentNext
  PROVE  ConsentInv'
  <1>1. CASE consent!Publish \/ consent!Tick
    <2>1. UNCHANGED <<config, arg, signed, wire, verdict, rules, begun>> /\ clock' \in Nat
      BY <1>1 DEF consent!Publish, consent!Tick, ConsentInv
    <2> QED BY <2>1 DEF ConsentInv, Issued, Payload, GrantedScope, Codes, RulesKept, consent!verifySignature
  <1>2. CASE consent!Want
    <2>1. /\ arg' = consent!encodeScopeArg(Codes)
          /\ UNCHANGED <<clock, config, signed, wire, verdict, rules, begun>>
      BY <1>2 DEF consent!Want, Codes
    <2> QED BY <2>1 DEF ConsentInv, Issued, Payload, GrantedScope, Codes, RulesKept, consent!verifySignature
  <1>3. CASE consent!Grant
    <2>1. /\ arg # Nothing /\ signed = Nothing /\ consent!ScopeParses(GrantedScope)
          /\ signed' = consent!issueAuthorization(config, GrantedScope)
          /\ UNCHANGED <<clock, config, arg, wire, verdict, rules, begun>>
      BY <1>3 DEF consent!Grant, GrantedScope, Codes
    <2>2. Codes # <<>>
      BY <2>1 DEF consent!ScopeParses, GrantedScope
    <2>3. signed' = Token(Payload(clock), BuyerKey, Payload(clock))
      <3>1. signed' = consent!signAuthorization(Payload(clock), BuyerKey)
        BY <2>1 DEF consent!issueAuthorization, Payload
      <3>2. Payload(clock).buyerPubkey = BuyerKey
        BY DEF Payload
      <3> QED BY <3>1, <3>2 DEF consent!signAuthorization, Token
    <2>4. Issued'
      <3>1. PICK t \in Nat : t = clock
        BY DEF ConsentInv
      <3>2. signed' = Token(Payload(t), BuyerKey, Payload(t))
        BY <2>3, <3>1
      <3>3. Payload(t)' = Payload(t)
        BY <2>1 DEF Payload, GrantedScope, Codes
      <3> QED BY <3>2, <3>3 DEF Issued
    <2>5. wire = Nothing /\ rules = Nothing
      BY <2>1 DEF ConsentInv
    <2> QED BY <2>1, <2>2, <2>4, <2>5 DEF ConsentInv, Codes
  <1>4. CASE consent!AwardGate
    <2>1. /\ wire # Nothing /\ UNCHANGED <<clock, config, arg, signed, wire, rules, begun>>
      BY <1>4 DEF consent!AwardGate
    <2> QED BY <2>1 DEF ConsentInv, Issued, Payload, GrantedScope, Codes, RulesKept, consent!verifySignature
  <1>5. CASE consent!NextRound
    <2>1. /\ arg' = Nothing /\ signed' = Nothing /\ wire' = Nothing /\ verdict' = Nothing
          /\ rules' = Nothing /\ UNCHANGED <<clock, config>>
      BY <1>5 DEF consent!NextRound
    <2>2. Nothing # "ok"
      BY DEF SupportAssumption, consent!ConsentAssumption
    <2> QED BY <2>1, <2>2 DEF ConsentInv
  <1> QED
    BY <1>1, <1>2, <1>3, <1>4, <1>5, ArriveKeeps, DeliverKeeps DEF consent!ConsentNext

LEMMA ConsentPreserved == ASSUME SupportAssumption, ConsentInv, [Next]_vars PROVE ConsentInv'
  <1>1. CASE Consent
    BY <1>1, ConsentStep DEF Consent
  <1>2. CASE UNCHANGED consentVars
    BY <1>2 DEF consentVars, ConsentInv, Issued, Payload, GrantedScope, Codes, RulesKept, consent!verifySignature
  <1> QED BY <1>1, <1>2 DEF Next, Pricing, Report, Demo, vars

\* The engine keeps to the grant that was signed and to the categories every
\* bidder read, on an allowlisted target and in its time, for any categories,
\* targets, nonces, keys and times (verifier.ts:41-93, scope.ts:103-116).
THEOREM EngineKeepsToTheGrant == Spec => []EngineKeepsTheGrant
  <1>1. ConsentInv => EngineKeepsTheGrant
    <2>1. SUFFICES ASSUME ConsentInv, rules # Nothing PROVE consent!EngineKeepsTheGrant
      BY DEF EngineKeepsTheGrant, consent!EngineKeepsTheGrant
    <2>2. PICK t \in Nat : signed = Token(Payload(t), BuyerKey, Payload(t))
      BY <2>1 DEF ConsentInv, Issued
    <2>3. RulesKept /\ Codes # <<>> /\ arg = consent!encodeScopeArg(Codes) /\ config \in consent!Configs
      BY <2>1 DEF ConsentInv
    <2>4. signed.payload.scope = GrantedScope
      BY <2>2 DEF Token, Payload
    <2>5. rules.scope.categories = Codes
      BY <2>3, <2>4 DEF RulesKept, GrantedScope
    <2>6. config.asked \in Scopes
      BY <2>3 DEF consent!Configs
    <2>7. consent!Range(Codes) = consent!Range(consent!decodeScopeArg(arg))
      BY <2>3, <2>6, CodesTravel, SupportAssumption DEF Codes
    <2>8. rules.target = signed.payload.target /\ rules.scope = signed.payload.scope
      BY <2>3 DEF RulesKept
    <2> QED BY <2>3, <2>5, <2>7, <2>8 DEF RulesKept, consent!EngineKeepsTheGrant
  <1>2. Init => ConsentInv
    BY ConsentInitial, SupportAssumption
  <1>3. ConsentInv /\ [Next]_vars => ConsentInv'
    BY ConsentPreserved, SupportAssumption
  <1> QED BY <1>1, <1>2, <1>3, PTL DEF Spec
-----------------------------------------------------------------------------
DemoPlaces == {"none", "bootstrap", "token", "stack", "coral", "launch", "feed", "done", "died"}

\* Sessions are made in order, and the audits among them carry the nonce of the
\* run that launched them.
Launches ==
  /\ demo \in [at : DemoPlaces, run : Nat, session : {0} \cup stage!Sessions]
  /\ created \in Nat /\ created <= stage!MaxSessions /\ live \subseteq 1 .. created
  /\ auditNonce \in [stage!Sessions -> Nat]
  /\ \A s \in stage!Sessions :
       auditNonce[s] <= demo.run /\ (s > created => auditNonce[s] = 0)

\* The places of the script before its session is launched.
Launching == {"bootstrap", "token", "stack", "coral", "launch"}

\* The token of the run is published before coral is restarted; no session has
\* its nonce before the launch, and after it only the one that was launched,
\* which stays alive until the script is at its end.
DemoInv ==
  /\ Launches
  /\ demo.at \in {"stack", "coral", "launch", "feed", "done"} => token = demo.run
  /\ demo.at \in Launching => \A s \in stage!Sessions : auditNonce[s] < demo.run
  /\ demo.at \in {"feed", "done"} =>
       /\ demo.session \in live /\ demo.run > 0
       /\ \A s \in stage!Sessions : auditNonce[s] = demo.run <=> s = demo.session
  /\ demo.at = "done" /\ env.lsof /\ feed.up => feed.session = demo.session

LEMMA DemoInitial == ASSUME Init PROVE DemoInv
  BY SupportAssumption DEF Init, stage!DemoInit, stage!DashboardInit, DemoInv, Launches, DemoPlaces,
     stage!Sessions, SupportAssumption, stage!DemoAssumption, Launching

\* A step of the dashboard makes a session of the starter market at most.
LEMMA DashboardKeeps ==
  ASSUME DemoInv, UNCHANGED <<env, demo, token, auditNonce, feed>>,
         (created' = created /\ live' = live) \/ stage!CreateSession
  PROVE  DemoInv'
  <1>1. CASE created' = created /\ live' = live
    BY <1>1 DEF DemoInv, Launches
  <1>2. CASE stage!CreateSession
    <2>1. created' = created + 1 /\ live' = live \cup {created'} /\ created < stage!MaxSessions
      BY <1>2 DEF stage!CreateSession
    <2>2. created \in Nat /\ stage!MaxSessions \in Nat
      BY SupportAssumption DEF DemoInv, Launches, SupportAssumption, stage!DemoAssumption
    <2>3. created' \in stage!Sessions /\ auditNonce[created'] = 0
      BY <2>1, <2>2 DEF stage!Sessions, DemoInv, Launches
    <2>4. Launches'
      BY <2>1, <2>2 DEF DemoInv, Launches, stage!Sessions
    <2> QED BY <2>1, <2>3, <2>4 DEF DemoInv
  <1> QED BY <1>1, <1>2

\* The steps of the script.
LEMMA ScriptKeeps ==
  ASSUME DemoInv,
         \/ stage!Begin \/ stage!Bootstrap \/ stage!PublishToken \/ stage!StackUp
         \/ stage!RestartCoral \/ stage!LaunchSession \/ stage!PinFeed \/ stage!die \/ stage!Configure
  PROVE  DemoInv'
  <1>. USE DEF Launching
  <1>1. CASE stage!Begin
    <2>1. /\ UNCHANGED <<env, token, auditNonce, created, live, feed>>
          /\ demo'.run = demo.run + 1 /\ demo'.session = 0 /\ demo'.at \in {"bootstrap", "died"}
          /\ demo' \in [at : DemoPlaces, run : Nat, session : {0} \cup stage!Sessions]
      BY <1>1 DEF DemoInv, Launches, DemoPlaces, stage!Begin, stage!dashboardVars, stage!coralVars
    <2>2. demo.run \in Nat
      BY DEF DemoInv, Launches
    <2>3. \A s \in stage!Sessions : auditNonce'[s] \in Nat /\ auditNonce'[s] < demo'.run
      BY <2>1, <2>2 DEF DemoInv, Launches
    <2>4. Launches'
      BY <2>1, <2>2, <2>3 DEF DemoInv, Launches
    <2> QED BY <2>1, <2>3, <2>4 DEF DemoInv
  <1>2. CASE stage!Bootstrap
    BY <1>2 DEF DemoInv, Launches, DemoPlaces, stage!Bootstrap, stage!goesTo, stage!dashboardVars, stage!coralVars
  <1>3. CASE stage!PublishToken
    BY <1>3 DEF DemoInv, Launches, DemoPlaces, stage!PublishToken, stage!goesTo, stage!dashboardVars, stage!coralVars
  <1>4. CASE stage!StackUp
    BY <1>4 DEF DemoInv, Launches, DemoPlaces, stage!StackUp, stage!goesTo, stage!dashboardVars, stage!coralVars
  <1>5. CASE stage!RestartCoral
    BY <1>5 DEF DemoInv, Launches, DemoPlaces, stage!RestartCoral, stage!goesTo
  <1>6. CASE stage!LaunchSession
    <2>1. /\ demo.at = "launch" /\ UNCHANGED <<env, token>>
          /\ created' = created + 1 /\ live' = live \cup {created'} /\ created < stage!MaxSessions
          /\ auditNonce' = [auditNonce EXCEPT ![created'] = token]
          /\ demo' = [demo EXCEPT !.at = "feed", !.session = created']
      BY <1>6 DEF stage!LaunchSession, stage!CreateSession
    <2>2. created \in Nat /\ stage!MaxSessions \in Nat
      BY SupportAssumption DEF DemoInv, Launches, SupportAssumption, stage!DemoAssumption
    <2>3. created' \in stage!Sessions /\ live \subseteq stage!Sessions /\ token = demo.run
      BY <2>1, <2>2 DEF stage!Sessions, DemoInv, Launches
    <2>4. demo'.at = "feed" /\ demo'.run = demo.run /\ demo'.session = created'
      BY <2>1 DEF DemoInv, Launches
    <2>5. auditNonce'[created'] = demo.run /\ \A s \in stage!Sessions \ {created'} : auditNonce'[s] = auditNonce[s]
      BY <2>1, <2>3 DEF DemoInv, Launches
    <2>6. Launches'
      <3>1. demo' \in [at : DemoPlaces, run : Nat, session : {0} \cup stage!Sessions]
        BY <2>1, <2>3 DEF DemoInv, Launches, DemoPlaces
      <3>2. created' \in Nat /\ created' <= stage!MaxSessions /\ live' \subseteq 1 .. created'
        BY <2>1, <2>2 DEF DemoInv, Launches
      <3>3. auditNonce' \in [stage!Sessions -> Nat]
        BY <2>1, <2>3 DEF DemoInv, Launches
      <3>4. \A s \in stage!Sessions : auditNonce'[s] <= demo'.run /\ (s > created' => auditNonce'[s] = 0)
        BY <2>1, <2>2, <2>4, <2>5 DEF DemoInv, Launches, stage!Sessions
      <3> QED BY <3>1, <3>2, <3>3, <3>4 DEF Launches
    <2>7. token' = demo'.run
      BY <2>1, <2>3, <2>4
    <2>8. \A s \in stage!Sessions : auditNonce[s] \in Nat /\ auditNonce[s] < demo.run
      BY <2>1 DEF DemoInv, Launches
    <2>9. demo.run > 0
      BY <2>3, <2>8 DEF DemoInv, Launches
    <2>10. \A s \in stage!Sessions : auditNonce'[s] = demo'.run <=> s = demo'.session
      BY <2>4, <2>5, <2>8 DEF DemoInv, Launches
    <2> QED BY <2>1, <2>4, <2>6, <2>7, <2>9, <2>10 DEF DemoInv
  <1>7. CASE stage!PinFeed
    <2>1. /\ demo.at = "feed" /\ demo' = [demo EXCEPT !.at = "done"]
          /\ UNCHANGED <<env, token, auditNonce, created, live>>
          /\ env.lsof /\ feed'.up => feed'.session = demo.session
      BY <1>7 DEF stage!PinFeed, stage!goesTo, stage!coralVars
    <2>2. demo'.at = "done" /\ demo'.run = demo.run /\ demo'.session = demo.session
      BY <2>1 DEF DemoInv, Launches
    <2>3. Launches'
      BY <2>1, <2>2 DEF DemoInv, Launches, DemoPlaces
    <2> QED BY <2>1, <2>2, <2>3 DEF DemoInv
  <1>8. CASE stage!die
    BY <1>8 DEF DemoInv, Launches, DemoPlaces, stage!die, stage!dashboardVars, stage!coralVars
  <1>9. CASE stage!Configure
    BY <1>9 DEF DemoInv, stage!Configure, Launches, stage!dashboardVars, stage!coralVars
  <1> QED BY <1>1, <1>2, <1>3, <1>4, <1>5, <1>6, <1>7, <1>8, <1>9

LEMMA DemoPreserved == ASSUME DemoInv, [Next]_vars PROVE DemoInv'
  <1>1. ASSUME stage!DashboardNext /\ UNCHANGED stage!demoVars PROVE DemoInv'
    <2>1. UNCHANGED <<env, demo, token, auditNonce>>
      BY <1>1 DEF stage!demoVars
    <2>2. feed' = feed /\ ((created' = created /\ live' = live) \/ stage!CreateSession)
      BY <1>1 DEF stage!DashboardNext, stage!Open, stage!Bind, stage!Pick, stage!Start, stage!Launched,
                  stage!StartFails, stage!Say, stage!Poll, stage!Serve, stage!Shown, stage!coralVars
    <2> QED BY <2>1, <2>2, DashboardKeeps
  <1>2. CASE stage!DemoNext
    BY <1>1, <1>2, ScriptKeeps DEF stage!DemoNext
  <1>3. CASE UNCHANGED demoVars
    BY <1>3 DEF demoVars, DemoInv, Launches
  <1> QED BY <1>2, <1>3 DEF Next, Pricing, Consent, Report, Demo, vars

\* When the script says that AuditMesh is live, the session it launched is the
\* only live one whose buyer has the token that is at the target, and a feed that
\* answers is pinned to it where lsof cleared the port: also when coral was not
\* restarted or the feed did not start; for any settings and number of runs
\* (demo.mjs:150-201).
THEOREM LiveDemoIsAlone == Spec => []DoneMeansOneLiveMarket
  <1>1. ASSUME DemoInv PROVE DoneMeansOneLiveMarket
    <2>1. ASSUME demo.at = "done"
          PROVE  /\ demo.session \in live /\ live \subseteq stage!Sessions /\ token = demo.run
                 /\ \A s \in stage!Sessions : auditNonce[s] = demo.run <=> s = demo.session
                 /\ feed.up /\ env.lsof => feed.session = demo.session
      <3>1. stage!MaxSessions \in Nat
        BY SupportAssumption DEF SupportAssumption, stage!DemoAssumption
      <3>2. live \subseteq stage!Sessions
        BY <1>1, <3>1 DEF DemoInv, Launches, stage!Sessions
      <3> QED BY <1>1, <2>1, <3>2 DEF DemoInv
    <2> QED BY <2>1 DEF DoneMeansOneLiveMarket, stage!DoneMeansOneLiveMarket
  <1> QED BY <1>1, DemoInitial, DemoPreserved, PTL DEF Spec

-----------------------------------------------------------------------------
(* The report.                                                             *)

\* What the engine's entries become, one after the other: f[k] is what the
\* first k make.
Raw == {report!coerceFinding(e, n) : e \in Entries, n \in Nat}
Coerced(es, kept, i) ==
  IF es[i].title THEN Append(kept, report!coerceFinding(es[i], Len(kept) + i)) ELSE kept
CoerceSteps(f, es) ==
  /\ f \in [0 .. Len(es) -> Seq(Raw)] /\ f[0] = <<>>
  /\ \A k \in Nat : k + 1 <= Len(es) => f[k + 1] = Coerced(es, f[k], k + 1)

\* As the fold is defined.
CoerceOver(h, es) ==
  LET ix == [i \in DOMAIN es |-> i] IN
  h = [s \in SUBSET DOMAIN ix |->
         IF s = {} THEN <<>> ELSE Coerced(es, h[s \ {Largest(s)}], ix[Largest(s)])]

LEMMA CoercedTyped ==
  ASSUME NEW es \in Seq(Entries), NEW kept \in Seq(Raw), NEW i \in 1 .. Len(es)
  PROVE  Coerced(es, kept, i) \in Seq(Raw)
  <1>1. Len(kept) \in Nat /\ i \in Nat /\ es[i] \in Entries
    BY LenProperties, ElementOfSeq
  <1>2. Len(kept) + i \in Nat
    BY <1>1
  <1>3. PICK n \in Nat : n = Len(kept) + i
    BY <1>2
  <1>4. report!coerceFinding(es[i], n) \in Raw
    BY <1>1 DEF Raw
  <1> QED BY <1>3, <1>4, AppendProperties DEF Coerced

LEMMA CoerceIs ==
  ASSUME NEW es \in Seq(Entries)
  PROVE  \E h : CoerceOver(h, es) /\ report!CoerceAll(es) = h[DOMAIN es]
  <1>1. report!CoerceAll(es) = (CHOOSE h : CoerceOver(h, es))[DOMAIN [i \in DOMAIN es |-> i]]
    BY DEF report!CoerceAll, report!FoldLeftDomain, report!FoldLeft, report!MapThenFoldSet, report!Max,
       CoerceOver, Coerced, Largest
  <1>2. PICK n \in Nat : n = Len(es)
    BY LenProperties
  <1>3. DOMAIN es = 1 .. n
    BY <1>2, LenProperties
  <1>4. PICK G : G = [p \in Seq(Raw) \X (1 .. n) |-> Coerced(es, p[1], p[2])]
    OBVIOUS
  <1>5. PICK ix : ix = [i \in 1 .. n |-> i]
    OBVIOUS
  <1>6. /\ G \in [Seq(Raw) \X (1 .. n) -> Seq(Raw)]
        /\ \A kept \in Seq(Raw), i \in 1 .. n : G[kept, i] = Coerced(es, kept, i)
    BY <1>2, <1>4, CoercedTyped
  <1>7. <<>> \in Seq(Raw) /\ \A i \in 1 .. n : ix[i] \in 1 .. n
    BY <1>5, EmptySeq
  <1>8. Foldable(Seq(Raw), G, <<>>, ix, n)
    BY <1>6, <1>7, FoldingExists
  <1>9. PICK g \in [SUBSET (1 .. n) -> Seq(Raw)] : Folding(g, G, <<>>, ix, n)
    BY <1>8 DEF Foldable
  <1>10. ASSUME NEW s \in SUBSET (1 .. n), s # {}
         PROVE  g[s] = Coerced(es, g[s \ {Largest(s)}], ix[Largest(s)])
    <2>1. Largest(s) \in 1 .. n /\ s \ {Largest(s)} \in SUBSET (1 .. n)
      BY <1>10, LargestIs
    <2>2. g[s] = G[g[s \ {Largest(s)}], ix[Largest(s)]]
      BY <1>9, <1>10 DEF Folding
    <2> QED BY <1>6, <1>7, <1>9, <2>1, <2>2
  <1>11. g[{}] = <<>>
    BY <1>9 DEF Folding
  <1>12. CoerceOver(g, es)
    BY <1>3, <1>5, <1>9, <1>10, <1>11 DEF CoerceOver
  <1> QED BY <1>1, <1>3, <1>12

LEMMA CoerceStepwise ==
  ASSUME NEW es \in Seq(Entries)
  PROVE  \E f : CoerceSteps(f, es) /\ report!CoerceAll(es) = f[Len(es)]
  <1>1. PICK h : CoerceOver(h, es) /\ report!CoerceAll(es) = h[DOMAIN es]
    BY CoerceIs
  <1>2. PICK n \in Nat : n = Len(es)
    BY LenProperties
  <1>3. DOMAIN es = 1 .. n
    BY <1>2, LenProperties
  <1>4. h[1 .. 0] = <<>>
    <2>1. 1 .. 0 = {} /\ 1 .. 0 \in SUBSET DOMAIN es
      OBVIOUS
    <2> QED BY <1>1, <2>1 DEF CoerceOver
  <1>5. ASSUME NEW k \in Nat, k + 1 <= n
        PROVE  h[1 .. k + 1] = Coerced(es, h[1 .. k], k + 1)
    <2>1. PICK s : s = 1 .. k + 1
      OBVIOUS
    <2>2. s # {} /\ s \in SUBSET DOMAIN es /\ k + 1 \in DOMAIN es
      <3>1. k + 1 \in s /\ \A i \in s : i \in 1 .. n
        BY <1>5, <2>1
      <3> QED BY <1>3, <3>1
    <2>3. Largest(s) = k + 1 /\ s \ {Largest(s)} = 1 .. k
      BY <2>1, WithoutLargest
    <2> QED BY <1>1, <2>1, <2>2, <2>3 DEF CoerceOver
  <1>6. PICK N : N = {k \in Nat : k <= n => h[1 .. k] \in Seq(Raw)}
    OBVIOUS
  <1>7. 0 \in N
    BY <1>4, <1>6, EmptySeq
  <1>8. ASSUME NEW k \in Nat, k \in N PROVE k + 1 \in N
    <2>1. ASSUME k + 1 <= n PROVE h[1 .. k + 1] \in Seq(Raw)
      <3>1. h[1 .. k] \in Seq(Raw) /\ k + 1 \in 1 .. n
        BY <1>6, <1>8, <2>1
      <3> QED BY <1>2, <1>5, <2>1, <3>1, CoercedTyped
    <2> QED BY <1>6, <2>1
  <1>9. Nat \subseteq N
    BY <1>7, <1>8, NatSet
  <1>10. PICK f : f = [k \in 0 .. n |-> h[1 .. k]]
    OBVIOUS
  <1>11. f \in [0 .. n -> Seq(Raw)]
    BY <1>6, <1>9, <1>10
  <1>12. ASSUME NEW k \in Nat, k + 1 <= n PROVE f[k + 1] = Coerced(es, f[k], k + 1)
    <2>1. f[k + 1] = h[1 .. k + 1] /\ f[k] = h[1 .. k]
      BY <1>10, <1>12
    <2> QED BY <1>5, <1>12, <2>1
  <1>13. f[0] = <<>> /\ f[n] = h[1 .. n]
    BY <1>4, <1>10
  <1> QED BY <1>1, <1>2, <1>3, <1>11, <1>12, <1>13 DEF CoerceSteps

\* One finding for every entry with a title, and it keeps the entry.
LEMMA CoercedAre ==
  ASSUME NEW es \in Seq(Entries)
  PROVE  /\ report!CoerceAll(es) \in Seq(Raw)
         /\ Len(report!CoerceAll(es)) = Cardinality({i \in DOMAIN es : es[i].title})
  <1>1. PICK f : CoerceSteps(f, es) /\ report!CoerceAll(es) = f[Len(es)]
    BY CoerceStepwise
  <1>2. PICK n \in Nat : n = Len(es)
    BY LenProperties
  <1>3. DOMAIN es = 1 .. n
    BY <1>2, LenProperties
  <1>4. PICK titled : titled = [k \in 0 .. n |-> {i \in 1 .. k : es[i].title}]
    OBVIOUS
  <1>5. PICK N : N = {k \in Nat : k <= n => IsFiniteSet(titled[k]) /\ Len(f[k]) = Cardinality(titled[k])}
    OBVIOUS
  <1>6. 0 \in N
    <2>1. titled[0] = {} /\ f[0] = <<>>
      BY <1>1, <1>4 DEF CoerceSteps
    <2>2. IsFiniteSet({}) /\ Cardinality({}) = 0 /\ Len(<<>>) = 0
      BY FS_EmptySet
    <2> QED BY <1>5, <2>1, <2>2
  <1>7. ASSUME NEW k \in Nat, k \in N PROVE k + 1 \in N
    <2>1. ASSUME k + 1 <= n PROVE IsFiniteSet(titled[k + 1]) /\ Len(f[k + 1]) = Cardinality(titled[k + 1])
      <3>1. IsFiniteSet(titled[k]) /\ Len(f[k]) = Cardinality(titled[k]) /\ f[k] \in Seq(Raw)
        BY <1>1, <1>2, <1>5, <1>7, <2>1 DEF CoerceSteps
      <3>2. f[k + 1] = Coerced(es, f[k], k + 1)
        BY <1>1, <1>2, <2>1 DEF CoerceSteps
      <3>3. titled[k] = {i \in 1 .. k : es[i].title} /\ titled[k + 1] = {i \in 1 .. k + 1 : es[i].title}
        <4>1. k \in 0 .. n /\ k + 1 \in 0 .. n
          BY <2>1
        <4> QED BY <1>4, <4>1
      <3>4. k + 1 \notin titled[k] /\ \A i : i \in 1 .. k + 1 <=> i \in 1 .. k \/ i = k + 1
        BY <3>3
      <3>5. CASE es[k + 1].title
        <4>1. titled[k + 1] = titled[k] \cup {k + 1}
          BY <3>3, <3>4, <3>5
        <4>2. IsFiniteSet(titled[k + 1]) /\ Cardinality(titled[k + 1]) = Cardinality(titled[k]) + 1
          BY <3>1, <3>4, <4>1, FS_AddElement
        <4>3. Len(f[k + 1]) = Len(f[k]) + 1
          <5>1. f[k + 1] = Append(f[k], report!coerceFinding(es[k + 1], Len(f[k]) + (k + 1)))
            BY <3>2, <3>5 DEF Coerced
          <5>2. Len(f[k]) + (k + 1) \in Nat /\ es[k + 1] \in Entries
            <6>1. k + 1 \in 1 .. Len(es) /\ Len(f[k]) \in Nat
              BY <1>2, <2>1, <3>1, LenProperties
            <6>2. es[k + 1] \in Entries
              BY <6>1, ElementOfSeq
            <6>3. PICK m \in Nat : m = Len(f[k])
              BY <6>1
            <6>4. m + (k + 1) \in Nat
              OBVIOUS
            <6> QED BY <6>2, <6>3, <6>4
          <5>3. report!coerceFinding(es[k + 1], Len(f[k]) + (k + 1)) \in Raw
            BY <5>2 DEF Raw
          <5> QED BY <3>1, <5>1, <5>3, AppendProperties
        <4> QED BY <3>1, <4>2, <4>3
      <3>6. CASE ~ es[k + 1].title
        <4>1. titled[k + 1] = titled[k]
          BY <3>3, <3>4, <3>6
        <4> QED BY <3>1, <3>2, <3>6, <4>1 DEF Coerced
      <3> QED BY <3>5, <3>6
    <2> QED BY <1>5, <2>1
  <1>8. Nat \subseteq N
    BY <1>6, <1>7, NatSet
  <1>9. Len(f[n]) = Cardinality(titled[n]) /\ titled[n] = {i \in 1 .. n : es[i].title}
    <2>1. n \in N /\ n \in 0 .. n
      BY <1>8
    <2> QED BY <1>4, <1>5, <2>1
  <1>10. f[n] \in Seq(Raw)
    BY <1>1, <1>2 DEF CoerceSteps
  <1> QED BY <1>1, <1>2, <1>3, <1>9, <1>10

Ranks == {"info", "low", "medium", "high", "critical"}

LEMMA RanksAre ==
  /\ report!Range(report!SEVERITIES) = Ranks /\ DOMAIN report!SEVERITIES = 1 .. 5
  /\ \A level, score : report!normalizeSeverity(level, score) \in Ranks
  <1>1. DOMAIN report!SEVERITIES = 1 .. 5
    BY DEF report!SEVERITIES
  <1>2. \A x : x \in 1 .. 5 <=> x \in {1, 2, 3, 4, 5}
    OBVIOUS
  <1>3. report!Range(report!SEVERITIES) = Ranks
    BY <1>1, <1>2 DEF report!SEVERITIES, Ranks, report!Range
  <1>4. ASSUME NEW level, NEW score PROVE report!normalizeSeverity(level, score) \in Ranks
    BY <1>3 DEF report!normalizeSeverity, Ranks
  <1> QED BY <1>1, <1>3, <1>4

\* Findings as they are sold: of the severity that their entry was given, and
\* with no AM number twice.
Numbered(f) == f.id[1] = "AM"
Clash(f, g) == Numbered(f) /\ Numbered(g) /\ f.id = g.id
Distinct(fs) == \A i, j \in DOMAIN fs : Clash(fs[i], fs[j]) => i = j
Sound(fs) ==
  /\ fs \in Seq(report!Range(fs))
  /\ \A f : In(f, fs) => f.severity = report!normalizeSeverity(f.of.level, f.of.score)
  /\ Distinct(fs)

LEMMA ReportRange == \A s, x : x \in report!Range(s) <=> In(x, s)
  BY DEF report!Range, In

LEMMA ReportFilters == \A s, P : report!filter(s, P) = filter(s, P)
  BY DEF report!filter, filter

\* Where the entries are found.
LEMMA FoundAre ==
  ASSUME SupportAssumption, NEW out \in Outputs
  PROVE  report!findFindingsArray(out) \in Seq(Entries)
  <1>1. {out.top, out.report, out.result, out.data} \subseteq {Missing} \cup Seq(Entries)
    BY DEF SupportAssumption, report!ReportAssumption
  <1>2. CASE out.top # Missing
    BY <1>1, <1>2 DEF report!findFindingsArray
  <1>3. CASE out.top = Missing
    <2>1. PICK wrapped : wrapped = <<out.report, out.result, out.data>>
      OBVIOUS
    <2>2. PICK A : A = {Missing} \cup Seq(Entries)
      OBVIOUS
    <2>3. wrapped \in Seq(A)
      BY <1>1, <2>1, <2>2
    <2>4. PICK nested : nested = filter(wrapped, report!Range(wrapped) \ {Missing, <<>>})
      OBVIOUS
    <2>5. nested \in Seq(A) /\ \A x : In(x, nested) => x # Missing
      BY <2>3, <2>4, FilterTyped, InFilter
    <2>6. nested # <<>> => Head(nested) \in Seq(Entries)
      <3>1. SUFFICES ASSUME nested # <<>> PROVE Head(nested) \in Seq(Entries)
        OBVIOUS
      <3>2. Len(nested) \in Nat \ {0} /\ DOMAIN nested = 1 .. Len(nested)
        BY <2>5, <3>1, EmptySeq, LenProperties
      <3>3. 1 \in DOMAIN nested /\ Head(nested) = nested[1]
        BY <3>2
      <3>4. In(nested[1], nested) /\ nested[1] \in A
        BY <2>5, <3>2, <3>3, ElementOfSeq DEF In
      <3> QED BY <2>2, <2>5, <3>3, <3>4
    <2>7. report!findFindingsArray(out) = IF nested = <<>> THEN <<>> ELSE Head(nested)
      BY <1>3, <2>1, <2>4, ReportFilters DEF report!findFindingsArray
    <2> QED BY <2>6, <2>7, EmptySeq
  <1> QED BY <1>2, <1>3

\* What the parser makes of it.
LEMMA ParsedAre ==
  ASSUME SupportAssumption, NEW out \in Outputs
  PROVE  /\ Sound(report!parseStrixFindings(out))
         /\ Len(report!parseStrixFindings(out)) =
              Cardinality({i \in DOMAIN report!findFindingsArray(out) : report!findFindingsArray(out)[i].title})
  <1>1. PICK es : es = report!findFindingsArray(out)
    OBVIOUS
  <1>2. PICK all : all = report!CoerceAll(es)
    OBVIOUS
  <1>3. all \in Seq(Raw) /\ Len(all) = Cardinality({i \in DOMAIN es : es[i].title})
    BY <1>1, <1>2, FoundAre, CoercedAre
  <1>4. PICK n \in Nat : n = Len(all)
    BY <1>3, LenProperties
  <1>5. DOMAIN all = 1 .. n /\ \A i \in 1 .. n : all[i] \in Raw
    BY <1>3, <1>4, LenProperties, ElementOfSeq
  <1>6. PICK fs : fs = report!parseStrixFindings(out)
    OBVIOUS
  <1>7. fs = [i \in 1 .. n |-> IF all[i].id[1] = "AM" THEN [all[i] EXCEPT !.id = <<"AM", i>>] ELSE all[i]]
    BY <1>1, <1>2, <1>5, <1>6 DEF report!parseStrixFindings
  <1>8. fs \in Seq(report!Range(fs)) /\ Len(fs) = n /\ DOMAIN fs = 1 .. n
    <2>1. \A i \in 1 .. n : fs[i] \in report!Range(fs)
      BY <1>7 DEF report!Range
    <2>2. fs \in [1 .. n -> report!Range(fs)]
      BY <1>7, <2>1
    <2>3. fs \in Seq(report!Range(fs))
      BY <2>2, SeqDef
    <2> QED BY <1>7, <2>2, <2>3
  <1>9. ASSUME NEW i \in 1 .. n
        PROVE  /\ fs[i].severity = report!normalizeSeverity(fs[i].of.level, fs[i].of.score)
               /\ Numbered(fs[i]) => fs[i].id = <<"AM", i>>
    <2>1. PICK e \in Entries, k \in Nat : all[i] = report!coerceFinding(e, k)
      BY <1>5 DEF Raw
    <2>2. /\ all[i].severity = report!normalizeSeverity(e.level, e.score) /\ all[i].of = e
          /\ all[i] = [id |-> all[i].id, severity |-> all[i].severity, cvss |-> all[i].cvss, of |-> all[i].of]
      BY <2>1 DEF report!coerceFinding
    <2>3. CASE all[i].id[1] = "AM"
      <3>1. fs[i] = [all[i] EXCEPT !.id = <<"AM", i>>]
        BY <1>7, <2>3
      <3>2. fs[i].severity = all[i].severity /\ fs[i].of = all[i].of /\ fs[i].id = <<"AM", i>>
        BY <2>2, <3>1
      <3> QED BY <2>2, <3>2
    <2>4. CASE all[i].id[1] # "AM"
      BY <1>7, <2>2, <2>4 DEF Numbered
    <2> QED BY <2>3, <2>4
  <1>10. \A i, j \in 1 .. n : Numbered(fs[i]) /\ Numbered(fs[j]) /\ fs[i].id = fs[j].id => i = j
    BY <1>9
  <1>11. Distinct(fs)
    BY <1>8, <1>10 DEF Distinct, Clash
  <1> QED BY <1>1, <1>3, <1>4, <1>6, <1>8, <1>9, <1>11 DEF Sound, In

\* One piece for every rank, the worst first.
Join(p) == (((p["critical"] \o p["high"]) \o p["medium"]) \o p["low"]) \o p["info"]

LEMMA JoinTyped ==
  ASSUME NEW A, NEW p, \A x \in Ranks : p[x] \in Seq(A)
  PROVE  /\ Join(p) \in Seq(A) /\ \A y : In(y, Join(p)) <=> \E x \in Ranks : In(y, p[x])
         /\ Len(Join(p)) =
              Len(p["critical"]) + Len(p["high"]) + Len(p["medium"]) + Len(p["low"]) + Len(p["info"])
  <1>1. /\ p["critical"] \in Seq(A) /\ p["high"] \in Seq(A) /\ p["medium"] \in Seq(A)
        /\ p["low"] \in Seq(A) /\ p["info"] \in Seq(A)
    BY DEF Ranks
  <1>2. PICK a : a = p["critical"] \o p["high"]
    OBVIOUS
  <1>3. /\ a \in Seq(A) /\ \A y : In(y, a) <=> In(y, p["critical"]) \/ In(y, p["high"])
        /\ Len(a) = Len(p["critical"]) + Len(p["high"])
    BY <1>1, <1>2, InConcat, ConcatProperties
  <1>4. PICK b : b = a \o p["medium"]
    OBVIOUS
  <1>5. /\ b \in Seq(A) /\ \A y : In(y, b) <=> In(y, a) \/ In(y, p["medium"])
        /\ Len(b) = Len(a) + Len(p["medium"])
    BY <1>1, <1>3, <1>4, InConcat, ConcatProperties
  <1>6. PICK c : c = b \o p["low"]
    OBVIOUS
  <1>7. /\ c \in Seq(A) /\ \A y : In(y, c) <=> In(y, b) \/ In(y, p["low"])
        /\ Len(c) = Len(b) + Len(p["low"])
    BY <1>1, <1>5, <1>6, InConcat, ConcatProperties
  <1>8. PICK d : d = c \o p["info"]
    OBVIOUS
  <1>9. /\ d \in Seq(A) /\ \A y : In(y, d) <=> In(y, c) \/ In(y, p["info"])
        /\ Len(d) = Len(c) + Len(p["info"])
    BY <1>1, <1>7, <1>8, InConcat, ConcatProperties
  <1>10. Join(p) = d
    BY <1>2, <1>4, <1>6, <1>8 DEF Join
  <1>11. \A y : In(y, d) <=> \E x \in Ranks : In(y, p[x])
    BY <1>3, <1>5, <1>7, <1>9 DEF Ranks
  <1>12. Len(d) = Len(p["critical"]) + Len(p["high"]) + Len(p["medium"]) + Len(p["low"]) + Len(p["info"])
    BY <1>3, <1>5, <1>7, <1>9
  <1> QED BY <1>9, <1>10, <1>11, <1>12

LEMMA JoinFilter ==
  ASSUME NEW A, NEW P, NEW p, \A x \in Ranks : p[x] \in Seq(A)
  PROVE  filter(Join(p), P) = Join([x \in Ranks |-> filter(p[x], P)])
  <1>1. /\ p["critical"] \in Seq(A) /\ p["high"] \in Seq(A) /\ p["medium"] \in Seq(A)
        /\ p["low"] \in Seq(A) /\ p["info"] \in Seq(A)
    BY DEF Ranks
  <1>2. PICK a : a = p["critical"] \o p["high"]
    OBVIOUS
  <1>3. a \in Seq(A) /\ filter(a, P) = filter(p["critical"], P) \o filter(p["high"], P)
    BY <1>1, <1>2, FilterConcat, ConcatProperties
  <1>4. PICK b : b = a \o p["medium"]
    OBVIOUS
  <1>5. b \in Seq(A) /\ filter(b, P) = filter(a, P) \o filter(p["medium"], P)
    BY <1>1, <1>3, <1>4, FilterConcat, ConcatProperties
  <1>6. PICK c : c = b \o p["low"]
    OBVIOUS
  <1>7. c \in Seq(A) /\ filter(c, P) = filter(b, P) \o filter(p["low"], P)
    BY <1>1, <1>5, <1>6, FilterConcat, ConcatProperties
  <1>8. filter(c \o p["info"], P) = filter(c, P) \o filter(p["info"], P)
    BY <1>1, <1>7, FilterConcat
  <1>9. Join(p) = c \o p["info"]
    BY <1>2, <1>4, <1>6 DEF Join
  <1>10. PICK q : q = [x \in Ranks |-> filter(p[x], P)]
    OBVIOUS
  <1>11. /\ q["critical"] = filter(p["critical"], P) /\ q["high"] = filter(p["high"], P)
         /\ q["medium"] = filter(p["medium"], P) /\ q["low"] = filter(p["low"], P)
         /\ q["info"] = filter(p["info"], P)
    BY <1>10 DEF Ranks
  <1> QED BY <1>3, <1>5, <1>7, <1>8, <1>9, <1>10, <1>11 DEF Join

LEMMA JoinOne ==
  ASSUME NEW A, NEW p, NEW k \in Ranks, p[k] \in Seq(A), \A x \in Ranks : x # k => p[x] = <<>>
  PROVE  Join(p) = p[k]
  <1>1. PICK s : s = p[k]
    OBVIOUS
  <1>2. s \in Seq(A) /\ <<>> \o <<>> = <<>> /\ <<>> \o s = s /\ s \o <<>> = s
    BY <1>1, ConcatEmptySeq, EmptySeq
  <1>3. CASE k = "critical"
    BY <1>1, <1>2, <1>3 DEF Join, Ranks
  <1>4. CASE k = "high"
    BY <1>1, <1>2, <1>4 DEF Join, Ranks
  <1>5. CASE k = "medium"
    BY <1>1, <1>2, <1>5 DEF Join, Ranks
  <1>6. CASE k = "low"
    BY <1>1, <1>2, <1>6 DEF Join, Ranks
  <1>7. CASE k = "info"
    BY <1>1, <1>2, <1>7 DEF Join, Ranks
  <1> QED BY <1>3, <1>4, <1>5, <1>6, <1>7 DEF Ranks

\* The sorted findings are the findings of every rank, one rank behind the other.
Of(A, x) == {f \in A : f.severity = x}
Piece(fs, A) == [x \in Ranks |-> filter(fs, Of(A, x))]

LEMMA OfSeverityIs ==
  ASSUME NEW A, NEW fs \in Seq(A), NEW x
  PROVE  report!OfSeverity(fs, x) = filter(fs, Of(A, x))
  <1>1. \A y : In(y, fs) => y \in A
    BY LenProperties, ElementOfSeq DEF In
  <1>2. \A y : In(y, fs) => (y \in {f \in report!Range(fs) : f.severity = x} <=> y \in Of(A, x))
    BY <1>1, ReportRange DEF Of
  <1>3. filter(fs, {f \in report!Range(fs) : f.severity = x}) = filter(fs, Of(A, x))
    BY <1>2, FilterSame
  <1> QED BY <1>3, ReportFilters DEF report!OfSeverity

LEMMA DescIs ==
  /\ report!SEVERITY_ORDER_DESC = <<"critical", "high", "medium", "low", "info">>
  /\ report!SEVERITY_ORDER_DESC = Join([x \in Ranks |-> <<x>>])
  <1>1. Len(report!SEVERITIES) = 5
    BY DEF report!SEVERITIES
  <1>2. report!SEVERITY_ORDER_DESC = [i \in 1 .. 5 |-> report!SEVERITIES[(5 - i) + 1]]
    BY <1>1 DEF report!SEVERITY_ORDER_DESC, report!Reverse
  <1>3. PICK d : d = <<"critical", "high", "medium", "low", "info">>
    OBVIOUS
  <1>4. \A i : i \in 1 .. 5 <=> i \in {1, 2, 3, 4, 5}
    OBVIOUS
  <1>5. /\ report!SEVERITIES[1] = "info" /\ report!SEVERITIES[2] = "low" /\ report!SEVERITIES[3] = "medium"
        /\ report!SEVERITIES[4] = "high" /\ report!SEVERITIES[5] = "critical"
    BY DEF report!SEVERITIES
  <1>6. DOMAIN d = 1 .. 5 /\ d[1] = "critical" /\ d[2] = "high" /\ d[3] = "medium" /\ d[4] = "low" /\ d[5] = "info"
    BY <1>3
  <1>7. \A i \in 1 .. 5 : report!SEVERITIES[(5 - i) + 1] = d[i]
    <2>1. SUFFICES ASSUME NEW i \in 1 .. 5 PROVE report!SEVERITIES[(5 - i) + 1] = d[i]
      OBVIOUS
    <2>2. /\ i = 1 => (5 - i) + 1 = 5 /\ d[i] = d[1]
          /\ i = 2 => (5 - i) + 1 = 4 /\ d[i] = d[2]
          /\ i = 3 => (5 - i) + 1 = 3 /\ d[i] = d[3]
          /\ i = 4 => (5 - i) + 1 = 2 /\ d[i] = d[4]
          /\ i = 5 => (5 - i) + 1 = 1 /\ d[i] = d[5]
      OBVIOUS
    <2>3. i = 1 \/ i = 2 \/ i = 3 \/ i = 4 \/ i = 5
      OBVIOUS
    <2> QED BY <1>5, <1>6, <2>2, <2>3
  <1>8. [i \in 1 .. 5 |-> report!SEVERITIES[(5 - i) + 1]] = [i \in 1 .. 5 |-> d[i]]
    BY <1>7
  <1>9. d \in [1 .. 5 -> Ranks]
    BY <1>4, <1>6, <1>3 DEF Ranks
  <1>10. report!SEVERITY_ORDER_DESC = d
    BY <1>2, <1>8, <1>9
  <1>11. PICK p : p = [x \in Ranks |-> <<x>>]
    OBVIOUS
  <1>12. /\ p["critical"] = <<"critical">> /\ p["high"] = <<"high">> /\ p["medium"] = <<"medium">>
         /\ p["low"] = <<"low">> /\ p["info"] = <<"info">>
    BY <1>11 DEF Ranks
  <1>13. /\ <<"critical">> \o <<"high">> = <<"critical", "high">>
         /\ <<"critical", "high">> \o <<"medium">> = <<"critical", "high", "medium">>
         /\ <<"critical", "high", "medium">> \o <<"low">> = <<"critical", "high", "medium", "low">>
         /\ <<"critical", "high", "medium", "low">> \o <<"info">> = <<"critical", "high", "medium", "low", "info">>
    BY FiveInOrder
  <1>14. Join(p) = <<"critical", "high", "medium", "low", "info">>
    BY <1>12, <1>13 DEF Join
  <1> QED BY <1>3, <1>10, <1>11, <1>14

LEMMA SortIs ==
  ASSUME NEW A, NEW fs \in Seq(A)
  PROVE  report!SortBySeverity(fs) = Join(Piece(fs, A))
  <1>1. PICK seqs : seqs = [i \in 1 .. 5 |-> report!OfSeverity(fs, report!SEVERITY_ORDER_DESC[i])]
    OBVIOUS
  <1>2. PICK p : p = Piece(fs, A)
    OBVIOUS
  <1>3. /\ seqs[1] = p["critical"] /\ seqs[2] = p["high"] /\ seqs[3] = p["medium"]
        /\ seqs[4] = p["low"] /\ seqs[5] = p["info"]
    <2>1. /\ report!SEVERITY_ORDER_DESC[1] = "critical" /\ report!SEVERITY_ORDER_DESC[2] = "high"
          /\ report!SEVERITY_ORDER_DESC[3] = "medium" /\ report!SEVERITY_ORDER_DESC[4] = "low"
          /\ report!SEVERITY_ORDER_DESC[5] = "info"
      BY DescIs
    <2>2. \A x \in Ranks : p[x] = report!OfSeverity(fs, x)
      BY <1>2, OfSeverityIs DEF Piece
    <2> QED BY <1>1, <2>1, <2>2 DEF Ranks
  <1>4. seqs \in Seq(Seq(A)) /\ Len(seqs) = 5
    <2>1. \A x \in Ranks : p[x] \in Seq(A)
      BY <1>2, FilterTyped DEF Piece
    <2>2. \A i \in 1 .. 5 : i = 1 \/ i = 2 \/ i = 3 \/ i = 4 \/ i = 5
      OBVIOUS
    <2>3. \A i \in 1 .. 5 : seqs[i] \in Seq(A)
      BY <1>3, <2>1, <2>2 DEF Ranks
    <2>4. seqs \in [1 .. 5 -> Seq(A)]
      BY <1>1, <2>3
    <2>5. PICK B : B = Seq(A)
      OBVIOUS
    <2>6. seqs \in [1 .. 5 -> B] /\ 5 \in Nat
      BY <2>4, <2>5
    <2>7. seqs \in Seq(B)
      BY <2>6, SeqDef
    <2>8. Len(seqs) = 5
      BY <2>6, <2>7, LenProperties
    <2> QED BY <2>5, <2>7, <2>8
  <1>5. report!SortBySeverity(fs) = report!FlattenSeq(seqs)
    BY <1>1, RanksAre DEF report!SortBySeverity
  <1>6. report!FlattenSeq(seqs) = (CHOOSE f : Flattens(f, seqs, 5))[5]
    BY <1>4 DEF report!FlattenSeq, Flattens
  <1>7. PICK f : f = CHOOSE g : Flattens(g, seqs, 5)
    OBVIOUS
  <1>8. Flattens(f, seqs, 5)
    BY <1>7, FlattensExists
  <1>9. /\ f[1] = seqs[1] /\ f[2] = f[1] \o seqs[2] /\ f[3] = f[2] \o seqs[3]
        /\ f[4] = f[3] \o seqs[4] /\ f[5] = f[4] \o seqs[5]
    <2>1. ASSUME NEW i \in 1 .. 5, NEW j \in 1 .. 5, j = i + 1
          PROVE  f[j] = f[i] \o seqs[j]
      <3>1. j # 1 /\ j - 1 = i
        BY <2>1
      <3> QED BY <1>8, <3>1 DEF Flattens
    <2>2. f[1] = seqs[1]
      BY <1>8 DEF Flattens
    <2>3. \A i, j \in 1 .. 5 : j = i + 1 => f[j] = f[i] \o seqs[j]
      BY <2>1
    <2>4. 1 \in 1 .. 5 /\ 2 \in 1 .. 5 /\ 3 \in 1 .. 5 /\ 4 \in 1 .. 5 /\ 5 \in 1 .. 5
      OBVIOUS
    <2>5. 2 = 1 + 1 /\ 3 = 2 + 1 /\ 4 = 3 + 1 /\ 5 = 4 + 1
      OBVIOUS
    <2>6. f[2] = f[1] \o seqs[2] /\ f[3] = f[2] \o seqs[3]
      BY <2>3, <2>4, <2>5
    <2>7. f[4] = f[3] \o seqs[4] /\ f[5] = f[4] \o seqs[5]
      BY <2>3, <2>4, <2>5
    <2> QED BY <2>2, <2>6, <2>7
  <1> QED BY <1>2, <1>3, <1>5, <1>6, <1>7, <1>9 DEF Join

\* Nothing is lost or told twice by sorting, and sorting again changes nothing.
Ranked(fs) == \A f : In(f, fs) => f.severity \in Ranks

LEMMA PieceTyped ==
  ASSUME NEW A, NEW fs \in Seq(A)
  PROVE  \A x \in Ranks : Piece(fs, A)[x] \in Seq(A) /\ Piece(fs, A)[x] = filter(fs, Of(A, x))
  BY FilterTyped DEF Piece

LEMMA InPiece ==
  ASSUME NEW A, NEW fs \in Seq(A), NEW x \in Ranks, NEW f
  PROVE  In(f, Piece(fs, A)[x]) <=> In(f, fs) /\ f.severity = x
  <1>1. Piece(fs, A)[x] = filter(fs, Of(A, x))
    BY PieceTyped
  <1>2. In(f, filter(fs, Of(A, x))) <=> In(f, fs) /\ f \in Of(A, x)
    BY InFilter
  <1>3. In(f, fs) => f \in A
    BY LenProperties, ElementOfSeq DEF In
  <1> QED BY <1>1, <1>2, <1>3 DEF Of

LEMMA InSorted ==
  ASSUME NEW A, NEW fs \in Seq(A), Ranked(fs)
  PROVE  /\ report!SortBySeverity(fs) \in Seq(A)
         /\ \A f : In(f, report!SortBySeverity(fs)) <=> In(f, fs)
  <1>1. PICK p : p = Piece(fs, A)
    OBVIOUS
  <1>2. \A x \in Ranks : p[x] \in Seq(A) /\ p[x] = filter(fs, Of(A, x))
    BY <1>1, PieceTyped
  <1>3. Join(p) \in Seq(A) /\ \A f : In(f, Join(p)) <=> \E x \in Ranks : In(f, p[x])
    BY <1>2, JoinTyped
  <1>4. ASSUME NEW f PROVE In(f, Join(p)) <=> In(f, fs)
    <2>1. \A x \in Ranks : In(f, p[x]) <=> In(f, fs) /\ f.severity = x
      BY <1>1, InPiece
    <2> QED BY <1>3, <2>1 DEF Ranked
  <1>6. \A f : In(f, Join(p)) <=> In(f, fs)
    BY <1>4
  <1> QED BY <1>1, <1>3, <1>6, SortIs

LEMMA SortedLength ==
  ASSUME NEW A, NEW fs \in Seq(A), Ranked(fs)
  PROVE  Len(report!SortBySeverity(fs)) = Len(fs)
  <1>1. PICK p : p = Piece(fs, A)
    OBVIOUS
  <1>2. \A x \in Ranks : p[x] \in Seq(A) /\ p[x] = filter(fs, Of(A, x))
    BY <1>1, PieceTyped
  <1>3. Len(Join(p)) = Len(p["critical"]) + Len(p["high"]) + Len(p["medium"]) + Len(p["low"]) + Len(p["info"])
    BY <1>2, JoinTyped
  <1>4. PICK ch : ch = Of(A, "critical") \cup Of(A, "high")
    OBVIOUS
  <1>5. PICK chm : chm = ch \cup Of(A, "medium")
    OBVIOUS
  <1>6. PICK chml : chml = chm \cup Of(A, "low")
    OBVIOUS
  <1>7. PICK every : every = chml \cup Of(A, "info")
    OBVIOUS
  <1>8. Len(filter(fs, ch)) = Len(filter(fs, Of(A, "critical"))) + Len(filter(fs, Of(A, "high")))
    <2>1. Of(A, "critical") \cap Of(A, "high") = {}
      BY DEF Of
    <2> QED BY <1>4, <2>1, FilterSplit
  <1>9. Len(filter(fs, chm)) = Len(filter(fs, ch)) + Len(filter(fs, Of(A, "medium")))
    <2>1. ch \cap Of(A, "medium") = {}
      BY <1>4 DEF Of
    <2> QED BY <1>5, <2>1, FilterSplit
  <1>10. Len(filter(fs, chml)) = Len(filter(fs, chm)) + Len(filter(fs, Of(A, "low")))
    <2>1. chm \cap Of(A, "low") = {}
      BY <1>4, <1>5 DEF Of
    <2> QED BY <1>6, <2>1, FilterSplit
  <1>11. Len(filter(fs, every)) = Len(filter(fs, chml)) + Len(filter(fs, Of(A, "info")))
    <2>1. chml \cap Of(A, "info") = {}
      BY <1>4, <1>5, <1>6 DEF Of
    <2> QED BY <1>7, <2>1, FilterSplit
  <1>12. filter(fs, every) = fs
    <2>1. \A f : In(f, fs) => f \in A
      BY LenProperties, ElementOfSeq DEF In
    <2>2. \A f : In(f, fs) => (f \in every <=> f \in A)
      BY <1>4, <1>5, <1>6, <1>7, <2>1 DEF Ranked, Ranks, Of
    <2>3. filter(fs, every) = filter(fs, A)
      BY <2>2, FilterSame
    <2> QED BY <2>3, FilterAll
  <1>13. Len(Join(p)) = Len(filter(fs, every))
    <2>1. /\ p["critical"] = filter(fs, Of(A, "critical")) /\ p["high"] = filter(fs, Of(A, "high"))
          /\ p["medium"] = filter(fs, Of(A, "medium")) /\ p["low"] = filter(fs, Of(A, "low"))
          /\ p["info"] = filter(fs, Of(A, "info"))
      BY <1>2 DEF Ranks
    <2> QED BY <1>3, <1>8, <1>9, <1>10, <1>11, <2>1
  <1> QED BY <1>1, <1>12, <1>13, SortIs

LEMMA SortedTwice ==
  ASSUME NEW A, NEW fs \in Seq(A), Ranked(fs)
  PROVE  report!SortBySeverity(report!SortBySeverity(fs)) = report!SortBySeverity(fs)
  <1>1. PICK p : p = Piece(fs, A)
    OBVIOUS
  <1>2. \A x \in Ranks : p[x] \in Seq(A) /\ p[x] = filter(fs, Of(A, x))
    BY <1>1, PieceTyped
  <1>3. PICK sorted : sorted = report!SortBySeverity(fs)
    OBVIOUS
  <1>4. sorted \in Seq(A) /\ sorted = Join(p)
    BY <1>1, <1>3, InSorted, SortIs
  <1>5. ASSUME NEW y \in Ranks PROVE filter(sorted, Of(A, y)) = filter(fs, Of(A, y))
    <2>1. PICK q : q = [x \in Ranks |-> filter(p[x], Of(A, y))]
      OBVIOUS
    <2>2. filter(sorted, Of(A, y)) = Join(q)
      BY <1>2, <1>4, <2>1, JoinFilter
    <2>3. ASSUME NEW x \in Ranks PROVE q[x] = filter(fs, Of(A, x) \cap Of(A, y))
      BY <1>2, <2>1, FilterAgain
    <2>4. ASSUME NEW x \in Ranks, x # y PROVE q[x] = <<>>
      <3>1. Of(A, x) \cap Of(A, y) = {}
        BY <2>4 DEF Of
      <3> QED BY <2>3, <3>1, FilterNone
    <2>5. q[y] = filter(fs, Of(A, y))
      <3>1. Of(A, y) \cap Of(A, y) = Of(A, y)
        OBVIOUS
      <3> QED BY <2>3, <3>1
    <2>6. q[y] \in Seq(A)
      BY <2>5, FilterTyped
    <2>7. Join(q) = q[y]
      BY <2>4, <2>6, JoinOne
    <2> QED BY <2>2, <2>5, <2>7
  <1>6. Piece(sorted, A) = Piece(fs, A)
    BY <1>5 DEF Piece
  <1> QED BY <1>1, <1>3, <1>4, <1>6, SortIs

-----------------------------------------------------------------------------
(* What is shown first is of the worst severity.                           *)

Led(s, t) == (s = <<>> <=> t = <<>>) /\ (s # <<>> => Head(s).severity = Head(t))

LEMMA LedConcat ==
  ASSUME NEW A, NEW B, NEW a \in Seq(A), NEW b \in Seq(A), NEW c \in Seq(B), NEW d \in Seq(B),
         Led(a, c), Led(b, d)
  PROVE  Led(a \o b, c \o d)
  <1>1. /\ a # <<>> => a \o b # <<>> /\ Head(a \o b) = Head(a)
        /\ a = <<>> => a \o b = b
    BY HeadConcat
  <1>2. /\ c # <<>> => c \o d # <<>> /\ Head(c \o d) = Head(c)
        /\ c = <<>> => c \o d = d
    BY HeadConcat
  <1>3. CASE a = <<>>
    BY <1>1, <1>2, <1>3 DEF Led
  <1>4. CASE a # <<>>
    BY <1>1, <1>2, <1>4 DEF Led
  <1> QED BY <1>3, <1>4

LEMMA JoinLed ==
  ASSUME NEW A, NEW B, NEW p, NEW q,
         \A x \in Ranks : p[x] \in Seq(A) /\ q[x] \in Seq(B) /\ Led(p[x], q[x])
  PROVE  Led(Join(p), Join(q))
  <1>1. \A x \in Ranks : p[x] \in Seq(A) /\ q[x] \in Seq(B) /\ Led(p[x], q[x])
    OBVIOUS
  <1>2. /\ "critical" \in Ranks /\ "high" \in Ranks /\ "medium" \in Ranks /\ "low" \in Ranks /\ "info" \in Ranks
    BY DEF Ranks
  <1>3. PICK a : a = p["critical"] \o p["high"]
    OBVIOUS
  <1>4. PICK b : b = q["critical"] \o q["high"]
    OBVIOUS
  <1>5. a \in Seq(A) /\ b \in Seq(B) /\ Led(a, b)
    BY <1>1, <1>2, <1>3, <1>4, LedConcat, ConcatProperties
  <1>6. PICK c : c = a \o p["medium"]
    OBVIOUS
  <1>7. PICK d : d = b \o q["medium"]
    OBVIOUS
  <1>8. c \in Seq(A) /\ d \in Seq(B) /\ Led(c, d)
    BY <1>1, <1>2, <1>5, <1>6, <1>7, LedConcat, ConcatProperties
  <1>9. PICK e : e = c \o p["low"]
    OBVIOUS
  <1>10. PICK f : f = d \o q["low"]
    OBVIOUS
  <1>11. e \in Seq(A) /\ f \in Seq(B) /\ Led(e, f)
    BY <1>1, <1>2, <1>8, <1>9, <1>10, LedConcat, ConcatProperties
  <1>12. Led(e \o p["info"], f \o q["info"])
    BY <1>1, <1>2, <1>11, LedConcat
  <1> QED BY <1>3, <1>4, <1>6, <1>7, <1>9, <1>10, <1>12 DEF Join

\* The severities that are counted, worst first.
Counted(fs) == {s \in Ranks : Len(report!OfSeverity(fs, s)) > 0}
Chips(fs) == filter(report!SEVERITY_ORDER_DESC, Counted(fs))

LEMMA ChipsAre ==
  ASSUME NEW A, NEW fs \in Seq(A), Ranked(fs)
  PROVE  /\ Led(report!SortBySeverity(fs), Chips(fs))
         /\ \A x : In(x, Chips(fs)) <=> \E f : In(f, fs) /\ f.severity = x
  <1>1. PICK p : p = Piece(fs, A)
    OBVIOUS
  <1>2. \A x \in Ranks : p[x] \in Seq(A) /\ p[x] = filter(fs, Of(A, x))
    BY <1>1, PieceTyped
  <1>3. PICK S : S = Counted(fs)
    OBVIOUS
  <1>4. ASSUME NEW x \in Ranks
        PROVE  /\ x \in S <=> p[x] # <<>>
               /\ p[x] # <<>> => In(Head(p[x]), p[x])
    <2>1. p[x] = report!OfSeverity(fs, x)
      BY <1>2, OfSeverityIs
    <2>2. PICK s \in Seq(A) : s = p[x]
      BY <1>2
    <2>3. Len(s) \in Nat /\ DOMAIN s = 1 .. Len(s) /\ (s # <<>> => Len(s) \in Nat \ {0}) /\ Len(<<>>) = 0
      BY LenProperties, EmptySeq
    <2>4. Len(s) > 0 <=> s # <<>>
      BY <2>3
    <2>5. s # <<>> => In(Head(s), s)
      <3>1. SUFFICES ASSUME s # <<>> PROVE In(Head(s), s)
        OBVIOUS
      <3>2. 1 \in DOMAIN s /\ Head(s) = s[1]
        BY <2>3, <3>1
      <3> QED BY <3>2 DEF In
    <2> QED BY <1>3, <2>1, <2>2, <2>4, <2>5 DEF Counted
  <1>5. \A x \in Ranks : \A f : In(f, p[x]) <=> In(f, fs) /\ f.severity = x
    BY <1>1, InPiece
  <1>6. PICK d : d = [x \in Ranks |-> <<x>>]
    OBVIOUS
  <1>7. report!SEVERITY_ORDER_DESC = Join(d)
    BY <1>6, DescIs
  <1>8. \A x \in Ranks : d[x] \in Seq(Ranks) /\ d[x] = <<x>> /\ \A y : In(y, d[x]) <=> y = x
    <2>1. ASSUME NEW x \in Ranks PROVE <<x>> \in Seq(Ranks) /\ \A y : In(y, <<x>>) <=> y = x
      BY DEF In
    <2> QED BY <1>6, <2>1
  <1>9. PICK q : q = [x \in Ranks |-> filter(d[x], S)]
    OBVIOUS
  <1>10. Chips(fs) = Join(q)
    BY <1>3, <1>7, <1>8, <1>9, JoinFilter DEF Chips
  <1>11. ASSUME NEW x \in Ranks
         PROVE  /\ q[x] \in Seq(Ranks)
                /\ x \in S => q[x] = <<x>>
                /\ x \notin S => q[x] = <<>>
    <2>1. <<>> \in Seq(Ranks) /\ Append(<<>>, x) = <<x>> /\ filter(<<>>, S) = <<>>
      BY EmptySeq, FilterEmpty
    <2>2. q[x] = filter(<<x>>, S)
      BY <1>8, <1>9
    <2>3. x \in S => filter(Append(<<>>, x), S) = Append(filter(<<>>, S), x)
      BY <2>1, FilterAppend
    <2>4. x \notin S => filter(Append(<<>>, x), S) = filter(<<>>, S)
      BY <2>1, FilterAppend
    <2>5. <<x>> \in Seq(Ranks)
      BY <1>8
    <2> QED BY <2>1, <2>2, <2>3, <2>4, <2>5
  <1>12. ASSUME NEW x \in Ranks PROVE Led(p[x], q[x])
    <2>1. p[x] # <<>> => Head(p[x]).severity = x
      BY <1>4, <1>5
    <2>2. <<x>> # <<>> /\ Head(<<x>>) = x
      OBVIOUS
    <2> QED BY <1>4, <1>11, <2>1, <2>2 DEF Led
  <1>13. Led(Join(p), Join(q))
    BY <1>2, <1>11, <1>12, JoinLed
  <1>14. ASSUME NEW x PROVE In(x, Chips(fs)) <=> \E f : In(f, fs) /\ f.severity = x
    <2>1. In(x, Join(d)) <=> \E y \in Ranks : In(x, d[y])
      <3>1. \A y \in Ranks : d[y] \in Seq(Ranks)
        BY <1>8
      <3> QED BY <3>1, JoinTyped
    <2>2. Join(d) \in Seq(Ranks)
      <3>1. \A y \in Ranks : d[y] \in Seq(Ranks)
        BY <1>8
      <3> QED BY <3>1, JoinTyped
    <2>3. In(x, Chips(fs)) <=> x \in Ranks /\ x \in S
      <3>1. In(x, Chips(fs)) <=> In(x, Join(d)) /\ x \in S
        BY <1>3, <1>7, <2>2, InFilter DEF Chips
      <3> QED BY <1>8, <2>1, <3>1
    <2>5. ASSUME x \in Ranks, x \in S PROVE \E f : In(f, fs) /\ f.severity = x
      BY <1>4, <1>5, <2>5
    <2>6. ASSUME NEW f, In(f, fs), f.severity = x PROVE x \in Ranks /\ x \in S
      <3>1. x \in Ranks
        BY <2>6 DEF Ranked
      <3>2. In(f, p[x])
        BY <1>5, <2>6, <3>1
      <3>3. p[x] # <<>>
        BY <3>2 DEF In
      <3> QED BY <1>4, <3>1, <3>3
    <2> QED BY <2>3, <2>5, <2>6
  <1> QED BY <1>1, <1>10, <1>13, <1>14, SortIs

-----------------------------------------------------------------------------
(* Sorted findings are as sound as they were.                              *)

LEMMA DistinctConcat ==
  ASSUME NEW A, NEW s \in Seq(A), NEW t \in Seq(A), Distinct(s), Distinct(t),
         \A f, g : In(f, s) /\ In(g, t) => ~Clash(f, g)
  PROVE  Distinct(s \o t)
  <1>1. PICK n \in Nat : n = Len(s)
    BY LenProperties
  <1>2. PICK m \in Nat : m = Len(t)
    BY LenProperties
  <1>3. PICK u : u = s \o t
    OBVIOUS
  <1>4. /\ DOMAIN s = 1 .. n /\ DOMAIN t = 1 .. m /\ DOMAIN u = 1 .. n + m
        /\ \A i \in 1 .. n + m : u[i] = IF i <= n THEN s[i] ELSE t[i - n]
    BY <1>1, <1>2, <1>3, ConcatProperties, LenProperties
  <1>5. ASSUME NEW i \in 1 .. n + m, NEW j \in 1 .. n + m, i <= n, j > n PROVE ~Clash(u[i], u[j]) /\ ~Clash(u[j], u[i])
    <2>1. i \in DOMAIN s /\ j - n \in DOMAIN t /\ u[i] = s[i] /\ u[j] = t[j - n]
      BY <1>4, <1>5
    <2>2. In(u[i], s) /\ In(u[j], t)
      BY <2>1 DEF In
    <2> QED BY <2>2 DEF Clash
  <1>6. ASSUME NEW i \in 1 .. n + m, NEW j \in 1 .. n + m, Clash(u[i], u[j]) PROVE i = j
    <2>1. CASE i <= n /\ j <= n
      BY <1>4, <1>6, <2>1 DEF Distinct
    <2>2. CASE i > n /\ j > n
      <3>1. i - n \in DOMAIN t /\ j - n \in DOMAIN t /\ u[i] = t[i - n] /\ u[j] = t[j - n]
        BY <1>4, <2>2
      <3>2. i - n = j - n
        BY <1>6, <3>1 DEF Distinct
      <3> QED BY <3>2
    <2>3. (i <= n /\ j <= n) \/ (i > n /\ j > n) \/ (i <= n /\ j > n) \/ (j <= n /\ i > n)
      OBVIOUS
    <2> QED BY <1>5, <1>6, <2>1, <2>2, <2>3
  <1> QED BY <1>3, <1>4, <1>6 DEF Distinct

LEMMA JoinDistinct ==
  ASSUME NEW A, NEW p, \A x \in Ranks : p[x] \in Seq(A) /\ Distinct(p[x]),
         \A x, y \in Ranks : x # y => \A f, g : In(f, p[x]) /\ In(g, p[y]) => ~Clash(f, g)
  PROVE  Distinct(Join(p))
  <1>1. /\ "critical" \in Ranks /\ "high" \in Ranks /\ "medium" \in Ranks /\ "low" \in Ranks /\ "info" \in Ranks
    BY DEF Ranks
  <1>2. \A x \in Ranks : p[x] \in Seq(A) /\ Distinct(p[x])
    OBVIOUS
  <1>3. ASSUME NEW x \in Ranks, NEW y \in Ranks, x # y, NEW f, NEW g, In(f, p[x]), In(g, p[y])
        PROVE  ~Clash(f, g)
    BY <1>3
  <1>4. PICK a : a = p["critical"] \o p["high"]
    OBVIOUS
  <1>5. /\ a \in Seq(A) /\ Distinct(a)
        /\ \A f : In(f, a) <=> In(f, p["critical"]) \/ In(f, p["high"])
    BY <1>1, <1>2, <1>3, <1>4, DistinctConcat, InConcat, ConcatProperties
  <1>6. PICK b : b = a \o p["medium"]
    OBVIOUS
  <1>7. /\ b \in Seq(A) /\ Distinct(b)
        /\ \A f : In(f, b) <=> In(f, a) \/ In(f, p["medium"])
    BY <1>1, <1>2, <1>3, <1>5, <1>6, DistinctConcat, InConcat, ConcatProperties
  <1>8. PICK c : c = b \o p["low"]
    OBVIOUS
  <1>9. /\ c \in Seq(A) /\ Distinct(c)
        /\ \A f : In(f, c) <=> In(f, b) \/ In(f, p["low"])
    BY <1>1, <1>2, <1>3, <1>5, <1>7, <1>8, DistinctConcat, InConcat, ConcatProperties
  <1>10. Distinct(c \o p["info"])
    <2>1. ASSUME NEW f, NEW g, In(f, c), In(g, p["info"]) PROVE ~Clash(f, g)
      BY <1>1, <1>3, <1>5, <1>7, <1>9, <2>1
    <2> QED BY <1>1, <1>2, <1>9, <2>1, DistinctConcat
  <1> QED BY <1>4, <1>6, <1>8, <1>10 DEF Join

LEMMA FilterDistinct ==
  ASSUME NEW A, NEW P, NEW s \in Seq(A), Distinct(s)
  PROVE  Distinct(filter(s, P))
  <1>1. PICK t : t = filter(s, P)
    OBVIOUS
  <1>2. \A i, j \in DOMAIN t : i < j => Before(t[i], t[j], s)
    BY <1>1, FilterOrder
  <1>3. t \in Seq(A)
    BY <1>1, FilterTyped
  <1>4. PICK n \in Nat : n = Len(t)
    BY <1>3, LenProperties
  <1>5. DOMAIN t = 1 .. n
    BY <1>3, <1>4, LenProperties
  <1>6. PICK m \in Nat : m = Len(s)
    BY LenProperties
  <1>7. DOMAIN s = 1 .. m
    BY <1>6, LenProperties
  <1>8. ASSUME NEW f, NEW g, Before(f, g, s) PROVE ~Clash(f, g) /\ ~Clash(g, f)
    <2>1. PICK a, b \in DOMAIN s : a < b /\ s[a] = f /\ s[b] = g
      BY <1>8 DEF Before
    <2>2. a # b
      BY <1>7, <2>1
    <2> QED BY <2>1, <2>2 DEF Distinct
  <1>9. ASSUME NEW i \in 1 .. n, NEW j \in 1 .. n, Clash(t[i], t[j]) PROVE i = j
    <2>1. i < j \/ j < i \/ i = j
      OBVIOUS
    <2> QED BY <1>2, <1>5, <1>8, <1>9, <2>1
  <1> QED BY <1>1, <1>5, <1>9 DEF Distinct

LEMMA SoundIsRanked == ASSUME NEW fs, Sound(fs) PROVE Ranked(fs)
  BY RanksAre DEF Sound, Ranked

LEMMA SortedSound ==
  ASSUME NEW fs, Sound(fs)
  PROVE  Sound(report!SortBySeverity(fs))
  <1>1. PICK A : A = report!Range(fs)
    OBVIOUS
  <1>2. fs \in Seq(A) /\ Ranked(fs) /\ Distinct(fs)
    BY <1>1, SoundIsRanked DEF Sound
  <1>3. PICK sorted : sorted = report!SortBySeverity(fs)
    OBVIOUS
  <1>4. sorted \in Seq(A) /\ \A f : In(f, sorted) <=> In(f, fs)
    BY <1>2, <1>3, InSorted
  <1>5. sorted \in Seq(report!Range(sorted))
    <2>1. \A x : x \in A => x \in report!Range(sorted)
      BY <1>1, <1>4, ReportRange
    <2> QED BY <1>4, <2>1, SeqMonotonic
  <1>6. PICK p : p = Piece(fs, A)
    OBVIOUS
  <1>7. ASSUME NEW x \in Ranks PROVE p[x] \in Seq(A) /\ Distinct(p[x])
    BY <1>2, <1>6, PieceTyped, FilterDistinct
  <1>8. ASSUME NEW x \in Ranks, NEW y \in Ranks, x # y, NEW f, NEW g, In(f, p[x]), In(g, p[y])
        PROVE  ~Clash(f, g)
    <2>1. In(f, fs) /\ f.severity = x /\ In(g, fs) /\ g.severity = y
      BY <1>2, <1>6, <1>8, InPiece
    <2>2. f # g
      BY <1>8, <2>1
    <2>3. PICK i \in DOMAIN fs : fs[i] = f
      BY <2>1 DEF In
    <2>4. PICK j \in DOMAIN fs : fs[j] = g
      BY <2>1 DEF In
    <2> QED BY <1>2, <2>2, <2>3, <2>4 DEF Distinct
  <1>9. Distinct(Join(p))
    BY <1>7, <1>8, JoinDistinct
  <1>10. sorted = Join(p)
    BY <1>2, <1>3, <1>6, SortIs
  <1> QED BY <1>3, <1>4, <1>5, <1>9, <1>10 DEF Sound

-----------------------------------------------------------------------------
(* What is replayed is a report of its own findings, and what was          *)
(* delivered is the report of what the engine left, or that replay.        *)

ReportInv ==
  /\ Sound(prebaked.findings) /\ prebaked = report!buildReport(prebaked.findings, "prebaked")
  /\ output \in Outputs \cup {Missing}
  /\ delivered # Missing =>
       \/ output \in Outputs /\ delivered = report!buildReport(report!parseStrixFindings(output), "live")
       \/ output = Missing /\ delivered = prebaked

LEMMA BuiltIs ==
  ASSUME NEW fs, NEW source
  PROVE  /\ report!buildReport(fs, source).findings = report!SortBySeverity(fs)
         /\ report!buildReport(fs, source).summary = report!summarize(report!SortBySeverity(fs))
         /\ report!buildReport(fs, source) =
              [source |-> source, findings |-> report!SortBySeverity(fs),
               summary |-> report!summarize(report!SortBySeverity(fs))]
  BY DEF report!buildReport

\* A report of findings that were sorted is the same report.
LEMMA BuiltTwice ==
  ASSUME NEW fs, Sound(fs), NEW source, NEW r, r = report!buildReport(fs, source)
  PROVE  Sound(r.findings) /\ r = report!buildReport(r.findings, source)
  <1>1. r.findings = report!SortBySeverity(fs)
    BY BuiltIs
  <1>2. fs \in Seq(report!Range(fs)) /\ Ranked(fs)
    BY SoundIsRanked DEF Sound
  <1>3. report!SortBySeverity(r.findings) = report!SortBySeverity(fs)
    BY <1>1, <1>2, SortedTwice
  <1>4. report!buildReport(r.findings, source) = report!buildReport(fs, source)
    BY <1>3, BuiltIs
  <1> QED BY <1>1, <1>4, SortedSound

LEMMA SeedIsSound ==
  Sound(report!PrebakedSeed.findings) /\ report!PrebakedSeed = report!buildReport(report!PrebakedSeed.findings, "prebaked")
  <1>1. PICK d : d = report!SEVERITY_ORDER_DESC
    OBVIOUS
  <1>2. PICK fs : fs = [i \in 1 .. 5 |->
                          [id |-> <<"AM", i>>, severity |-> d[i], cvss |-> Missing,
                           of |-> [title |-> TRUE, level |-> d[i], score |-> Missing,
                                   vector |-> "none", id |-> <<"AM", i>>]]]
    OBVIOUS
  <1>3. report!PrebakedSeed = report!buildReport(fs, "prebaked")
    BY <1>1, <1>2, RanksAre DEF report!PrebakedSeed
  <1>4. \A i \in 1 .. 5 : d[i] \in Ranks
    <2>1. \A i : i \in 1 .. 5 <=> i \in {1, 2, 3, 4, 5}
      OBVIOUS
    <2>2. /\ d[1] = "critical" /\ d[2] = "high" /\ d[3] = "medium" /\ d[4] = "low" /\ d[5] = "info"
      BY <1>1, DescIs
    <2> QED BY <2>1, <2>2 DEF Ranks
  <1>5. ASSUME NEW x \in Ranks PROVE report!normalizeSeverity(x, Missing) = x
    <2>1. x \in report!Range(report!SEVERITIES)
      BY RanksAre
    <2>2. /\ x \notin {"informational", "note", "none"} /\ x \notin {"moderate", "medium-high"} /\ x # "severe"
      BY DEF Ranks
    <2> QED BY <2>1, <2>2 DEF report!normalizeSeverity
  <1>6. fs \in Seq(report!Range(fs)) /\ DOMAIN fs = 1 .. 5
    <2>1. \A i \in 1 .. 5 : fs[i] \in report!Range(fs)
      BY <1>2 DEF report!Range
    <2>2. fs \in [1 .. 5 -> report!Range(fs)] /\ 5 \in Nat
      BY <1>2, <2>1
    <2>3. fs \in Seq(report!Range(fs))
      BY <2>2, SeqDef
    <2> QED BY <1>2, <2>3
  <1>7. ASSUME NEW i \in 1 .. 5
        PROVE  fs[i].id = <<"AM", i>> /\ fs[i].severity = report!normalizeSeverity(fs[i].of.level, fs[i].of.score)
    <2>1. fs[i].id = <<"AM", i>> /\ fs[i].severity = d[i] /\ fs[i].of.level = d[i] /\ fs[i].of.score = Missing
      BY <1>2
    <2> QED BY <1>4, <1>5, <2>1
  <1>8. Distinct(fs)
    <2>1. ASSUME NEW i \in 1 .. 5, NEW j \in 1 .. 5, fs[i].id = fs[j].id PROVE i = j
      BY <1>7, <2>1
    <2> QED BY <1>6, <2>1 DEF Distinct, Clash
  <1>9. \A f : In(f, fs) => f.severity = report!normalizeSeverity(f.of.level, f.of.score)
    BY <1>6, <1>7 DEF In
  <1>10. Sound(fs)
    BY <1>6, <1>8, <1>9 DEF Sound
  <1> QED BY <1>3, <1>10, BuiltTwice

LEMMA ReportInitial == ASSUME Init PROVE ReportInv
  BY SeedIsSound DEF Init, report!ReportInit, ReportInv

LEMMA ReportPreserved == ASSUME SupportAssumption, ReportInv, [Next]_vars PROVE ReportInv'
  <1>1. Missing \notin Outputs
    BY DEF SupportAssumption, report!ReportAssumption
  <1>2. \A out \in Outputs : Sound(report!parseStrixFindings(out))
    BY ParsedAre
  <1>3. CASE report!ScanLive
    BY <1>1, <1>3 DEF ReportInv, report!ScanLive
  <1>4. CASE report!RefreshPrebaked
    <2>1. PICK r : r = report!buildReport(report!parseStrixFindings(output'), "prebaked")
      OBVIOUS
    <2>2. output' \in Outputs /\ delivered' = Missing /\ prebaked' = IF r.findings # <<>> THEN r ELSE prebaked
      BY <1>4, <2>1 DEF report!RefreshPrebaked
    <2>3. Sound(r.findings) /\ r = report!buildReport(r.findings, "prebaked")
      BY <1>2, <2>1, <2>2, BuiltTwice
    <2> QED BY <2>2, <2>3 DEF ReportInv
  <1>5. CASE report!Replay
    BY <1>5 DEF ReportInv, report!Replay
  <1>6. CASE UNCHANGED reportVars
    BY <1>6 DEF ReportInv, reportVars
  <1>7. report!ScanLive \/ report!RefreshPrebaked \/ report!Replay \/ UNCHANGED reportVars
    BY DEF Next, Pricing, Consent, Report, Demo, vars, report!ReportNext
  <1> QED BY <1>3, <1>4, <1>5, <1>6, <1>7

\* A report of sound findings is what the panel shows of it.
LEMMA BuiltAddsUp ==
  ASSUME NEW fs, Sound(fs), NEW source, NEW r, r = report!buildReport(fs, source)
  PROVE  LET shown == report!ReportPanel(r)
             AMs   == {i \in DOMAIN r.findings : r.findings[i].id[1] = "AM"} IN
         /\ Len(r.findings) = Len(fs)
         /\ \A f \in report!Range(r.findings) : f.severity = report!normalizeSeverity(f.of.level, f.of.score)
         /\ \A i, j \in AMs : r.findings[i].id = r.findings[j].id => i = j
         /\ shown.rows = r.findings /\ r.summary.totalFindings = Len(shown.rows)
         /\ report!Range(shown.chips) = {f.severity : f \in report!Range(shown.rows)}
         /\ shown.rows # <<>> => /\ r.summary.highestSeverity = Head(shown.rows).severity
                                 /\ Head(shown.chips) = Head(shown.rows).severity
  <1>1. PICK rows : rows = r.findings
    OBVIOUS
  <1>2. rows = report!SortBySeverity(fs) /\ r.summary = report!summarize(rows)
    BY <1>1, BuiltIs
  <1>3. Sound(rows) /\ Ranked(rows) /\ rows \in Seq(report!Range(rows))
    BY <1>2, SortedSound, SoundIsRanked DEF Sound
  <1>4. fs \in Seq(report!Range(fs)) /\ Ranked(fs)
    BY SoundIsRanked DEF Sound
  <1>5. Len(rows) = Len(fs) /\ report!SortBySeverity(rows) = rows
    BY <1>2, <1>4, SortedLength, SortedTwice
  <1>6. PICK chips : chips = Chips(rows)
    OBVIOUS
  <1>7. Led(rows, chips) /\ \A x : In(x, chips) <=> \E f : In(f, rows) /\ f.severity = x
    BY <1>3, <1>5, <1>6, ChipsAre
  <1>8. /\ r.summary.totalFindings = Len(rows)
        /\ r.summary.bySeverity = [s \in Ranks |-> Len(report!OfSeverity(rows, s))]
        /\ r.summary.highestSeverity = IF chips = <<>> THEN "info" ELSE Head(chips)
    <2>1. PICK by : by = [s \in Ranks |-> Len(report!OfSeverity(rows, s))]
      OBVIOUS
    <2>2. {s \in Ranks : by[s] > 0} = Counted(rows)
      BY <2>1 DEF Counted
    <2>3. report!filter(report!SEVERITY_ORDER_DESC, {s \in Ranks : by[s] > 0}) = chips
      BY <1>6, <2>2, ReportFilters DEF Chips
    <2>4. report!Range(report!SEVERITIES) = Ranks
      BY RanksAre
    <2>5. /\ report!summarize(rows).totalFindings = Len(rows)
          /\ report!summarize(rows).bySeverity = by
          /\ report!summarize(rows).highestSeverity =
               LET worst == report!filter(report!SEVERITY_ORDER_DESC, {s \in Ranks : by[s] > 0})
               IN  IF worst = <<>> THEN "info" ELSE Head(worst)
      BY <2>1, <2>4 DEF report!summarize
    <2> QED BY <1>2, <2>1, <2>3, <2>5
  <1>9. report!ReportPanel(r).rows = rows /\ report!ReportPanel(r).chips = chips
    <2>1. {s \in Ranks : r.summary.bySeverity[s] > 0} = Counted(rows)
      BY <1>8 DEF Counted
    <2>2. report!filter(report!SEVERITY_ORDER_DESC, {s \in report!Range(report!SEVERITIES) : r.summary.bySeverity[s] > 0}) = chips
      BY <1>6, <2>1, RanksAre, ReportFilters DEF Chips
    <2> QED BY <1>1, <1>5, <2>2 DEF report!ReportPanel
  <1>10. \A f \in report!Range(rows) : f.severity = report!normalizeSeverity(f.of.level, f.of.score)
    BY <1>3, ReportRange DEF Sound
  <1>11. \A i, j \in {k \in DOMAIN rows : rows[k].id[1] = "AM"} : rows[i].id = rows[j].id => i = j
    BY <1>3 DEF Sound, Distinct, Clash, Numbered
  <1>12. report!Range(chips) = {f.severity : f \in report!Range(rows)}
    <2>1. \A x : x \in report!Range(chips) <=> \E f \in report!Range(rows) : f.severity = x
      BY <1>7, ReportRange
    <2>2. \A x : x \in {f.severity : f \in report!Range(rows)} <=> \E f \in report!Range(rows) : x = f.severity
      OBVIOUS
    <2> QED BY <2>1, <2>2
  <1>13. rows # <<>> => r.summary.highestSeverity = Head(rows).severity /\ Head(chips) = Head(rows).severity
    BY <1>7, <1>8 DEF Led
  <1> QED BY <1>1, <1>5, <1>8, <1>9, <1>10, <1>11, <1>12, <1>13

LEMMA ReportCardinality == \A S : report!Cardinality(S) = Cardinality(S)
  BY DEF report!Cardinality, Cardinality

LEMMA ReportInvAddsUp == ASSUME SupportAssumption, ReportInv PROVE ReportAddsUp
  <1>1. SUFFICES ASSUME delivered # Missing
                 PROVE  \E fs, source :
                          /\ Sound(fs) /\ delivered = report!buildReport(fs, source)
                          /\ output # Missing =>
                               Len(fs) = Cardinality({i \in DOMAIN report!findFindingsArray(output) :
                                                        report!findFindingsArray(output)[i].title})
                          /\ output = Missing => delivered = prebaked
    <2>1. PICK r : r = delivered
      OBVIOUS
    <2>2. report!safeParseReport(delivered).ok <=> delivered # Missing
      BY DEF report!safeParseReport
    <2>3. report!safeParseReport(delivered).report = r
      BY <2>1 DEF report!safeParseReport
    <2>4. CASE delivered = Missing
      BY <2>2, <2>4 DEF ReportAddsUp, report!ReportAddsUp
    <2>5. CASE delivered # Missing
      <3>1. PICK fs, source : /\ Sound(fs) /\ r = report!buildReport(fs, source)
                              /\ output # Missing =>
                                   Len(fs) = Cardinality({i \in DOMAIN report!findFindingsArray(output) :
                                                            report!findFindingsArray(output)[i].title})
                              /\ output = Missing => r = prebaked
        BY <1>1, <2>1, <2>5
      <3> QED BY <2>3, <3>1, BuiltAddsUp, ReportCardinality DEF ReportAddsUp, report!ReportAddsUp
    <2> QED BY <2>4, <2>5
  <1>2. CASE output \in Outputs /\ delivered = report!buildReport(report!parseStrixFindings(output), "live")
    <2>1. output # Missing
      BY <1>2 DEF SupportAssumption, report!ReportAssumption
    <2> QED BY <1>2, <2>1, ParsedAre
  <1>3. CASE output = Missing /\ delivered = prebaked
    BY <1>3 DEF ReportInv
  <1> QED BY <1>1, <1>2, <1>3 DEF ReportInv

\* Whatever the engine writes and however often a report is replayed, the
\* buyer's panel accounts for every titled entry once, under distinct AM
\* numbers, worst first, with the summary of just these rows, and a replay is
\* what was kept (parser.ts:152-207, report.ts:114-158, prebaked.ts:19-37).
THEOREM ReportsAddUp == Spec => []ReportAddsUp
  <1>1. ReportInv /\ SupportAssumption => ReportAddsUp
    BY ReportInvAddsUp
  <1>2. Init => ReportInv
    BY ReportInitial
  <1>3. SupportAssumption /\ ReportInv /\ [Next]_vars => ReportInv'
    BY ReportPreserved
  <1> QED BY <1>1, <1>2, <1>3, SupportAssumption, PTL DEF Spec
-----------------------------------------------------------------------------
(* The rounds that the feed makes of what was said.                        *)

Said == UNION {stage!Range(part) : part \in UNION {stage!Range(Script[s]) : s \in stage!Sessions}}

Asks == {m.price : m \in Said} \cup {0}
Offers == UNION {[D -> Asks] : D \in SUBSET {m.by : m \in Said}}
Words == {m.status : m \in Said} \cup {"none"}
Standings == {"bidding", "awarded", "deposited", "delivered", "settled", "refunded"}
RoundView ==
  [bids : Offers, award : {m.to : m \in Said} \cup {Nobody}, amount : Asks, deposits : Nat, authz : Words,
   stages : [stage!Feed!Stages -> Words], status : Standings,
   delivered : BOOLEAN, released : BOOLEAN, refunded : BOOLEAN]
Views == [Rounds -> RoundView]
NewView == [n \in Rounds |-> stage!Feed!NewRound]

\* What a message changes of its round.
Standing(status, verb) ==
  IF verb = "RELEASED" THEN "settled"
  ELSE IF verb = "REFUNDED" THEN "refunded"
  ELSE IF verb = "DEPOSITED" /\ status # "settled" THEN "deposited"
  ELSE IF verb = "DELIVERED" /\ status # "settled" THEN "delivered"
  ELSE IF verb = "AWARD" /\ status = "bidding" THEN "awarded"
  ELSE status

Folded(old, m, new) ==
  /\ new.bids = IF m.verb = "BID" THEN stage!Feed!foldBid(old, m).bids ELSE old.bids
  /\ new.award = IF m.verb = "AWARD" THEN m.to ELSE old.award
  /\ new.amount = IF m.verb = "ESCROW_REQUIRED" THEN m.price ELSE old.amount
  /\ new.status = Standing(old.status, m.verb)
  /\ (old.deposits > 0 \/ m.verb = "DEPOSITED") => new.deposits > 0
  /\ new.delivered <=> old.delivered \/ m.verb = "DELIVERED"
  /\ new.released <=> old.released \/ m.verb = "RELEASED"
  /\ new.refunded <=> old.refunded \/ m.verb = "REFUNDED"

LEMMA NewRoundTyped == stage!Feed!NewRound \in RoundView
  <1>1. stage!Feed!NoBids \in Offers
    <2>1. stage!Feed!NoBids \in [{} -> Asks] /\ {} \in SUBSET {m.by : m \in Said}
      BY DEF stage!Feed!NoBids
    <2> QED BY <2>1 DEF Offers
  <1>2. 0 \in Asks /\ "none" \in Words /\ "bidding" \in Standings
    BY DEF Asks, Words, Standings
  <1> QED BY <1>1, <1>2 DEF stage!Feed!NewRound, RoundView

LEMMA FoldBidTyped ==
  ASSUME NEW r \in RoundView, NEW m \in Said
  PROVE  /\ stage!Feed!foldBid(r, m) \in RoundView
         /\ stage!Feed!foldBid(r, m) = [r EXCEPT !.bids = stage!Feed!foldBid(r, m).bids]
  <1>1. m.by \in {x.by : x \in Said} /\ m.price \in Asks
    BY DEF Asks
  <1>2. CASE m.by \in DOMAIN r.bids
    BY <1>2 DEF stage!Feed!foldBid, RoundView
  <1>3. CASE m.by \notin DOMAIN r.bids
    <2>1. PICK b : b = [s \in DOMAIN r.bids \cup {m.by} |-> IF s = m.by THEN m.price ELSE r.bids[s]]
      OBVIOUS
    <2>2. r.bids \in Offers
      BY DEF RoundView
    <2>3. PICK D \in SUBSET {x.by : x \in Said} : r.bids \in [D -> Asks]
      BY <2>2 DEF Offers
    <2>4. b \in [D \cup {m.by} -> Asks]
      BY <1>1, <2>1, <2>3
    <2>5. b \in Offers
      BY <1>1, <2>4 DEF Offers
    <2>6. stage!Feed!foldBid(r, m) = [r EXCEPT !.bids = b]
      BY <1>3, <2>1 DEF stage!Feed!foldBid
    <2> QED BY <2>5, <2>6 DEF RoundView
  <1> QED BY <1>2, <1>3

LEMMA RoundFields ==
  ASSUME NEW r \in RoundView
  PROVE  /\ r = [bids |-> r.bids, award |-> r.award, amount |-> r.amount, deposits |-> r.deposits,
                 authz |-> r.authz, stages |-> r.stages, status |-> r.status,
                 delivered |-> r.delivered, released |-> r.released, refunded |-> r.refunded]
         /\ r.deposits \in Nat /\ r.status \in Standings
         /\ r.delivered \in BOOLEAN /\ r.released \in BOOLEAN /\ r.refunded \in BOOLEAN
         /\ r.stages \in [stage!Feed!Stages -> Words]
  BY DEF RoundView

LEMMA FoldMessage ==
  ASSUME NEW v \in Views, NEW m \in Said, m.round \in Rounds
  PROVE  /\ stage!Feed!foldMessage(v, m) \in Views
         /\ \A n \in Rounds : n # m.round => stage!Feed!foldMessage(v, m)[n] = v[n]
         /\ Folded(v[m.round], m, stage!Feed!foldMessage(v, m)[m.round])
  <1>1. PICK r : r = v[m.round]
    OBVIOUS
  <1>2. PICK w : w = stage!Feed!foldMessage(v, m)
    OBVIOUS
  <1>3. r \in RoundView /\ r.deposits \in Nat /\ r.deposits + 1 \in Nat /\ r.status \in Standings
    <2>1. r \in RoundView
      BY <1>1 DEF Views
    <2> QED BY <2>1, RoundFields
  <1>. DEFINE To(q) == w = [v EXCEPT ![m.round] = q]
  <1>4. ASSUME NEW q \in RoundView, To(q), Folded(r, m, q)
        PROVE  w \in Views /\ (\A n \in Rounds : n # m.round => w[n] = v[n]) /\ Folded(r, m, w[m.round])
    BY <1>4 DEF Views
  <1>5. CASE m.verb = "BID"
    <2>1. To(stage!Feed!foldBid(r, m))
      BY <1>1, <1>2, <1>5 DEF stage!Feed!foldMessage
    <2>2. PICK q : q = stage!Feed!foldBid(r, m)
      OBVIOUS
    <2>3. q \in RoundView /\ q = [r EXCEPT !.bids = q.bids]
      BY <1>3, <2>2, FoldBidTyped
    <2>4. /\ q.award = r.award /\ q.amount = r.amount /\ q.status = r.status /\ q.deposits = r.deposits
          /\ q.delivered = r.delivered /\ q.released = r.released /\ q.refunded = r.refunded
      BY <1>3, <2>3, RoundFields
    <2>5. Folded(r, m, q)
      BY <1>5, <2>2, <2>4 DEF Folded, Standing
    <2> QED BY <1>1, <1>2, <1>4, <2>1, <2>2, <2>3, <2>5
  <1>6. CASE m.verb = "AWARD"
    <2>1. PICK q : q = [r EXCEPT !.award = m.to, !.status = IF r.status = "bidding" THEN "awarded" ELSE r.status]
      OBVIOUS
    <2>2. To(q)
      BY <1>1, <1>2, <1>6, <2>1 DEF stage!Feed!foldMessage, stage!Feed!foldAward
    <2>3. q \in RoundView
      BY <1>3, <2>1 DEF RoundView, Standings
    <2>4. Folded(r, m, q)
      BY <1>3, <1>6, <2>1, RoundFields DEF Folded, Standing
    <2> QED BY <1>1, <1>2, <1>4, <2>2, <2>3, <2>4
  <1>7. CASE m.verb = "ESCROW_REQUIRED"
    <2>1. PICK q : q = [r EXCEPT !.amount = m.price]
      OBVIOUS
    <2>2. To(q)
      BY <1>1, <1>2, <1>7, <2>1 DEF stage!Feed!foldMessage
    <2>3. q \in RoundView
      BY <1>3, <2>1 DEF RoundView, Asks
    <2>4. Folded(r, m, q)
      BY <1>3, <1>7, <2>1, RoundFields DEF Folded, Standing
    <2> QED BY <1>1, <1>2, <1>4, <2>2, <2>3, <2>4
  <1>8. CASE m.verb = "DEPOSITED"
    <2>1. PICK q : q = [r EXCEPT !.status = IF r.status = "settled" THEN r.status ELSE "deposited",
                                 !.deposits = r.deposits + 1]
      OBVIOUS
    <2>2. To(q)
      <3>1. [stage!Feed!unlessSettled(r, "deposited") EXCEPT !.deposits = @ + 1] = q
        BY <1>3, <2>1, RoundFields DEF stage!Feed!unlessSettled
      <3> QED BY <1>1, <1>2, <1>8, <3>1 DEF stage!Feed!foldMessage
    <2>3. q \in RoundView
      BY <1>3, <2>1 DEF RoundView, Standings
    <2>4. Folded(r, m, q)
      BY <1>3, <1>8, <2>1, RoundFields DEF Folded, Standing
    <2> QED BY <1>1, <1>2, <1>4, <2>2, <2>3, <2>4
  <1>9. CASE m.verb = "AUTHZ_RESULT"
    <2>1. PICK q : q = [r EXCEPT !.authz = m.status]
      OBVIOUS
    <2>2. To(q)
      BY <1>1, <1>2, <1>9, <2>1 DEF stage!Feed!foldMessage
    <2>3. q \in RoundView
      BY <1>3, <2>1 DEF RoundView, Words
    <2>4. Folded(r, m, q)
      BY <1>3, <1>9, <2>1, RoundFields DEF Folded, Standing
    <2> QED BY <1>1, <1>2, <1>4, <2>2, <2>3, <2>4
  <1>10. CASE m.verb = "DELIVERY_PROGRESS"
    <2>1. PICK stages : stages = [r.stages EXCEPT ![m.stage] = m.status]
      OBVIOUS
    <2>2. PICK q : q = [r EXCEPT !.stages = stages]
      OBVIOUS
    <2>3. To(q)
      <3>1. stage!Feed!foldProgress(r, m) = q
        BY <2>1, <2>2 DEF stage!Feed!foldProgress
      <3> QED BY <1>1, <1>2, <1>10, <3>1 DEF stage!Feed!foldMessage
    <2>4. stages \in [stage!Feed!Stages -> Words]
      BY <1>3, <2>1, RoundFields DEF Words
    <2>5. q \in RoundView
      BY <1>3, <2>2, <2>4 DEF RoundView
    <2>6. Folded(r, m, q)
      BY <1>3, <1>10, <2>2, RoundFields DEF Folded, Standing
    <2> QED BY <1>1, <1>2, <1>4, <2>3, <2>5, <2>6
  <1>11. CASE m.verb = "DELIVERED"
    <2>1. PICK q : q = [r EXCEPT !.status = IF r.status = "settled" THEN r.status ELSE "delivered",
                                 !.delivered = TRUE]
      OBVIOUS
    <2>2. To(q)
      <3>1. [stage!Feed!unlessSettled(r, "delivered") EXCEPT !.delivered = TRUE] = q
        BY <1>3, <2>1, RoundFields DEF stage!Feed!unlessSettled
      <3> QED BY <1>1, <1>2, <1>11, <3>1 DEF stage!Feed!foldMessage
    <2>3. q \in RoundView
      BY <1>3, <2>1 DEF RoundView, Standings
    <2>4. Folded(r, m, q)
      BY <1>3, <1>11, <2>1, RoundFields DEF Folded, Standing
    <2> QED BY <1>1, <1>2, <1>4, <2>2, <2>3, <2>4
  <1>12. CASE m.verb = "RELEASED"
    <2>1. PICK q : q = [r EXCEPT !.status = "settled", !.released = TRUE]
      OBVIOUS
    <2>2. To(q)
      BY <1>1, <1>2, <1>12, <2>1 DEF stage!Feed!foldMessage
    <2>3. q \in RoundView
      BY <1>3, <2>1 DEF RoundView, Standings
    <2>4. Folded(r, m, q)
      BY <1>3, <1>12, <2>1, RoundFields DEF Folded, Standing
    <2> QED BY <1>1, <1>2, <1>4, <2>2, <2>3, <2>4
  <1>13. CASE m.verb = "REFUNDED"
    <2>1. PICK q : q = [r EXCEPT !.status = "refunded", !.refunded = TRUE]
      OBVIOUS
    <2>2. To(q)
      BY <1>1, <1>2, <1>13, <2>1 DEF stage!Feed!foldMessage
    <2>3. q \in RoundView
      BY <1>3, <2>1 DEF RoundView, Standings
    <2>4. Folded(r, m, q)
      BY <1>3, <1>13, <2>1, RoundFields DEF Folded, Standing
    <2> QED BY <1>1, <1>2, <1>4, <2>2, <2>3, <2>4
  <1>14. CASE m.verb \notin {"BID", "AWARD", "ESCROW_REQUIRED", "DEPOSITED", "AUTHZ_RESULT", "DELIVERY_PROGRESS",
                            "DELIVERED", "RELEASED", "REFUNDED"}
    <2>1. To(r)
      BY <1>1, <1>2, <1>14 DEF stage!Feed!foldMessage
    <2>2. Folded(r, m, r)
      BY <1>3, <1>14, RoundFields DEF Folded, Standing
    <2> QED BY <1>1, <1>2, <1>3, <1>4, <2>1, <2>2
  <1> QED BY <1>5, <1>6, <1>7, <1>8, <1>9, <1>10, <1>11, <1>12, <1>13, <1>14

\* Every message is of a round.
Voiced == \A m \in Said : m.round \in Rounds

FoldStep == [p \in Views \X Said |-> stage!Feed!foldMessage(p[1], p[2])]
FoldsTo(f, ms) == /\ Steps(f, FoldStep, NewView, ms, Len(ms)) /\ f \in [0 .. Len(ms) -> Views]
                  /\ stage!Feed!foldRounds(ms) = f[Len(ms)]
FoldOver(h, ms) ==
  h = [s \in SUBSET DOMAIN ms |->
         IF s = {} THEN NewView ELSE stage!Feed!foldMessage(h[s \ {Largest(s)}], ms[Largest(s)])]

LEMMA NewViewTyped == NewView \in Views
  BY NewRoundTyped DEF NewView, Views

LEMMA FoldStepTyped ==
  ASSUME Voiced
  PROVE  /\ FoldStep \in [Views \X Said -> Views]
         /\ \A v \in Views, m \in Said : FoldStep[v, m] = stage!Feed!foldMessage(v, m)
  <1>1. \A v \in Views, m \in Said : stage!Feed!foldMessage(v, m) \in Views
    BY FoldMessage DEF Voiced
  <1>2. \A p \in Views \X Said : p[1] \in Views /\ p[2] \in Said
    OBVIOUS
  <1>3. FoldStep \in [Views \X Said -> Views]
    BY <1>1, <1>2 DEF FoldStep
  <1>4. ASSUME NEW v \in Views, NEW m \in Said PROVE FoldStep[v, m] = stage!Feed!foldMessage(v, m)
    BY DEF FoldStep
  <1> QED BY <1>3, <1>4

LEMMA FoldIs ==
  ASSUME Voiced, NEW ms \in Seq(Said)
  PROVE  \E h : FoldOver(h, ms) /\ stage!Feed!foldRounds(ms) = h[DOMAIN ms]
  <1>1. stage!Feed!foldRounds(ms) = (CHOOSE h : FoldOver(h, ms))[DOMAIN ms]
    BY DEF stage!Feed!foldRounds, stage!Feed!FoldLeft, stage!Feed!MapThenFoldSet, stage!Feed!Max,
       FoldOver, Largest, NewView
  <1>2. PICK n \in Nat : n = Len(ms)
    BY LenProperties
  <1>3. DOMAIN ms = 1 .. n /\ \A i \in 1 .. n : ms[i] \in Said
    BY <1>2, LenProperties, ElementOfSeq
  <1>4. Foldable(Views, FoldStep, NewView, ms, n)
    BY <1>3, FoldStepTyped, NewViewTyped, FoldingExists
  <1>5. PICK g \in [SUBSET (1 .. n) -> Views] : Folding(g, FoldStep, NewView, ms, n)
    BY <1>4 DEF Foldable
  <1>6. ASSUME NEW s \in SUBSET (1 .. n), s # {}
        PROVE  g[s] = stage!Feed!foldMessage(g[s \ {Largest(s)}], ms[Largest(s)])
    <2>1. g[s] = FoldStep[g[s \ {Largest(s)}], ms[Largest(s)]]
      BY <1>5, <1>6 DEF Folding
    <2>2. Largest(s) \in 1 .. n /\ s \ {Largest(s)} \in SUBSET (1 .. n)
      BY <1>6, LargestIs
    <2> QED BY <1>3, <1>5, <2>1, <2>2, FoldStepTyped
  <1>7. \A s \in SUBSET (1 .. n) : s = {} => g[s] = NewView
    BY <1>5 DEF Folding
  <1>8. FoldOver(g, ms)
    BY <1>3, <1>5, <1>6, <1>7 DEF FoldOver
  <1> QED BY <1>1, <1>8

LEMMA FoldSteps ==
  ASSUME Voiced, NEW ms \in Seq(Said)
  PROVE  \E f : FoldsTo(f, ms)
  <1>1. PICK h : FoldOver(h, ms) /\ stage!Feed!foldRounds(ms) = h[DOMAIN ms]
    BY FoldIs
  <1>2. PICK n \in Nat : n = Len(ms)
    BY LenProperties
  <1>3. DOMAIN ms = 1 .. n /\ \A i \in 1 .. n : ms[i] \in Said
    BY <1>2, LenProperties, ElementOfSeq
  <1>4. h[1 .. 0] = NewView
    <2>1. 1 .. 0 = {} /\ 1 .. 0 \in SUBSET DOMAIN ms
      OBVIOUS
    <2> QED BY <1>1, <2>1 DEF FoldOver
  <1>5. ASSUME NEW k \in Nat, k + 1 <= n
        PROVE  h[1 .. k + 1] = stage!Feed!foldMessage(h[1 .. k], ms[k + 1])
    <2>1. PICK s : s = 1 .. k + 1
      OBVIOUS
    <2>2. s # {} /\ s \in SUBSET DOMAIN ms
      <3>1. k + 1 \in s /\ \A i \in s : i \in 1 .. n
        BY <1>5, <2>1
      <3> QED BY <1>3, <3>1
    <2>3. Largest(s) = k + 1 /\ s \ {Largest(s)} = 1 .. k
      BY <2>1, WithoutLargest
    <2> QED BY <1>1, <2>1, <2>2, <2>3 DEF FoldOver
  <1>6. PICK N : N = {k \in Nat : k <= n => h[1 .. k] \in Views}
    OBVIOUS
  <1>7. 0 \in N
    BY <1>4, <1>6, NewViewTyped
  <1>8. ASSUME NEW k \in Nat, k \in N PROVE k + 1 \in N
    <2>1. ASSUME k + 1 <= n PROVE h[1 .. k + 1] \in Views
      <3>1. h[1 .. k] \in Views /\ ms[k + 1] \in Said
        BY <1>3, <1>6, <1>8, <2>1
      <3> QED BY <1>5, <2>1, <3>1, FoldMessage DEF Voiced
    <2> QED BY <1>6, <2>1
  <1>9. Nat \subseteq N
    BY <1>7, <1>8, NatSet
  <1>10. PICK f : f = [k \in 0 .. n |-> h[1 .. k]]
    OBVIOUS
  <1>11. f \in [0 .. n -> Views]
    BY <1>6, <1>9, <1>10
  <1>12. ASSUME NEW k \in Nat, k + 1 <= n PROVE f[k + 1] = FoldStep[f[k], ms[k + 1]]
    <2>1. f[k + 1] = h[1 .. k + 1] /\ f[k] = h[1 .. k] /\ f[k] \in Views /\ ms[k + 1] \in Said
      BY <1>3, <1>10, <1>11, <1>12
    <2> QED BY <1>5, <1>12, <2>1, FoldStepTyped
  <1>13. f[0] = NewView /\ f[n] = h[1 .. n]
    BY <1>4, <1>10
  <1> QED BY <1>1, <1>2, <1>3, <1>11, <1>12, <1>13 DEF FoldsTo, Steps

\* One message more is folded into what the others made.
LEMMA FoldMore ==
  ASSUME Voiced, NEW ms \in Seq(Said), NEW m \in Said
  PROVE  /\ stage!Feed!foldRounds(ms) \in Views
         /\ stage!Feed!foldRounds(Append(ms, m)) = stage!Feed!foldMessage(stage!Feed!foldRounds(ms), m)
  <1>1. PICK f : FoldsTo(f, ms)
    BY FoldSteps
  <1>2. PICK ext : ext = Append(ms, m)
    OBVIOUS
  <1>3. PICK n \in Nat : n = Len(ms)
    BY LenProperties
  <1>4. /\ ext \in Seq(Said) /\ Len(ext) = n + 1 /\ ext[n + 1] = m
        /\ \A i \in 1 .. n : ext[i] = ms[i]
    BY <1>2, <1>3, AppendProperties
  <1>5. PICK h : FoldsTo(h, ext)
    BY <1>4, FoldSteps
  <1>6. h[n] = f[n]
    <2>1. Steps(f, FoldStep, NewView, ms, n) /\ Steps(h, FoldStep, NewView, ext, n + 1)
      BY <1>1, <1>3, <1>4, <1>5 DEF FoldsTo
    <2>2. n + 1 \in Nat /\ n <= n + 1
      OBVIOUS
    <2> QED BY <1>4, <2>1, <2>2, StepsAgree
  <1>7. h[n + 1] = FoldStep[h[n], ext[n + 1]]
    <2>1. Steps(h, FoldStep, NewView, ext, n + 1)
      BY <1>4, <1>5 DEF FoldsTo
    <2>2. n \in Nat /\ n + 1 <= n + 1
      OBVIOUS
    <2> QED BY <2>1, <2>2 DEF Steps
  <1>8. f[n] \in Views
    BY <1>1, <1>3 DEF FoldsTo
  <1>9. stage!Feed!foldRounds(ext) = stage!Feed!foldMessage(stage!Feed!foldRounds(ms), m)
    <2>1. stage!Feed!foldRounds(ext) = h[n + 1] /\ stage!Feed!foldRounds(ms) = f[n]
      BY <1>1, <1>3, <1>4, <1>5 DEF FoldsTo
    <2> QED BY <1>4, <1>6, <1>7, <1>8, <2>1, FoldStepTyped
  <1>10. stage!Feed!foldRounds(ms) \in Views
    BY <1>1, <1>3, <1>8 DEF FoldsTo
  <1> QED BY <1>2, <1>9, <1>10

\* Nothing that was said makes new rounds.
LEMMA FoldNone == ASSUME Voiced PROVE stage!Feed!foldRounds(<<>>) = NewView
  <1>1. <<>> \in Seq(Said) /\ Len(<<>>) = 0
    BY EmptySeq
  <1>2. PICK f : FoldsTo(f, <<>>)
    BY <1>1, FoldSteps
  <1> QED BY <1>1, <1>2 DEF FoldsTo, Steps

\* What a round shows was said of it, and what was said of it is shown.
Spoken(m, t, verb, n) == In(m, t) /\ m.verb = verb /\ m.round = n

BidsTold(r, t, n) ==
  /\ \A s \in DOMAIN r.bids : \E b : Spoken(b, t, "BID", n) /\ b.by = s /\ b.price = r.bids[s]
  /\ \A b : Spoken(b, t, "BID", n) => b.by \in DOMAIN r.bids
AwardTold(r, t, n) ==
  /\ r.award # Nobody => \E a : Spoken(a, t, "AWARD", n)
  /\ (\E a : Spoken(a, t, "AWARD", n)) => \E a : Spoken(a, t, "AWARD", n) /\ a.to = r.award
AmountTold(r, t, n) ==
  (\E e : Spoken(e, t, "ESCROW_REQUIRED", n)) => \E e : Spoken(e, t, "ESCROW_REQUIRED", n) /\ e.price = r.amount
StandingTold(r) ==
  /\ r.status = "deposited" => r.deposits > 0
  /\ r.status = "delivered" => r.delivered
  /\ r.status = "settled" => r.released
  /\ r.released => r.status = "settled" \/ r.refunded
  /\ r.status = "refunded" => r.refunded
Tells(r, t, n) == BidsTold(r, t, n) /\ AwardTold(r, t, n) /\ AmountTold(r, t, n) /\ StandingTold(r)

LEMMA BidTaken ==
  ASSUME NEW r \in RoundView, NEW m
  PROVE  stage!Feed!foldBid(r, m).bids =
           IF m.by \in DOMAIN r.bids THEN r.bids
           ELSE [s \in DOMAIN r.bids \cup {m.by} |-> IF s = m.by THEN m.price ELSE r.bids[s]]
  <1>1. CASE m.by \in DOMAIN r.bids
    BY <1>1 DEF stage!Feed!foldBid
  <1>2. CASE m.by \notin DOMAIN r.bids
    <2>1. PICK b : b = [s \in DOMAIN r.bids \cup {m.by} |-> IF s = m.by THEN m.price ELSE r.bids[s]]
      OBVIOUS
    <2>2. stage!Feed!foldBid(r, m) = [r EXCEPT !.bids = b]
      BY <1>2, <2>1 DEF stage!Feed!foldBid
    <2>3. [r EXCEPT !.bids = b].bids = b
      BY DEF RoundView
    <2> QED BY <1>2, <2>1, <2>2, <2>3
  <1> QED BY <1>1, <1>2

LEMMA NothingTold == ASSUME NEW n PROVE Tells(stage!Feed!NewRound, <<>>, n)
  <1>1. \A m : ~ In(m, <<>>)
    BY DEF In
  <1>2. /\ DOMAIN stage!Feed!NewRound.bids = {} /\ stage!Feed!NewRound.award = Nobody
        /\ stage!Feed!NewRound.status = "bidding" /\ ~ stage!Feed!NewRound.released
    BY DEF stage!Feed!NewRound, stage!Feed!NoBids
  <1> QED BY <1>1, <1>2 DEF Tells, BidsTold, AwardTold, AmountTold, StandingTold, Spoken

LEMMA ToldOnce ==
  ASSUME NEW t \in Seq(Said), NEW m \in Said, NEW n
  PROVE  /\ \A x, verb : Spoken(x, Append(t, m), verb, n) <=>
                           Spoken(x, t, verb, n) \/ (x = m /\ m.verb = verb /\ m.round = n)
  BY InAppend DEF Spoken

LEMMA TellsMore ==
  ASSUME NEW r \in RoundView, NEW t \in Seq(Said), NEW m \in Said, NEW n, Tells(r, t, n), NEW w,
         IF m.round = n THEN Folded(r, m, w) ELSE w = r
  PROVE  Tells(w, Append(t, m), n)
  <1>. DEFINE ext == Append(t, m)
              Now(verb) == m.verb = verb /\ m.round = n
  <1>1. \A x, verb : Spoken(x, ext, verb, n) <=> Spoken(x, t, verb, n) \/ (x = m /\ Now(verb))
    BY ToldOnce
  <1>2. BidsTold(w, ext, n)
    <2>1. CASE Now("BID")
      <3>1. w.bids = IF m.by \in DOMAIN r.bids THEN r.bids
                     ELSE [s \in DOMAIN r.bids \cup {m.by} |-> IF s = m.by THEN m.price ELSE r.bids[s]]
        BY <2>1, BidTaken DEF Folded
      <3>. HIDE DEF ext
      <3>2. CASE m.by \in DOMAIN r.bids
        BY <1>1, <2>1, <3>1, <3>2 DEF Tells, BidsTold
      <3>3. CASE m.by \notin DOMAIN r.bids
        <4>1. DOMAIN w.bids = DOMAIN r.bids \cup {m.by}
          BY <3>1, <3>3
        <4>2. w.bids[m.by] = m.price /\ \A s \in DOMAIN r.bids : w.bids[s] = r.bids[s]
          BY <3>1, <3>3
        <4> QED BY <1>1, <2>1, <4>1, <4>2 DEF Tells, BidsTold
      <3> QED BY <3>2, <3>3
    <2>2. CASE ~ Now("BID")
      <3>1. w.bids = r.bids
        BY <2>2 DEF Folded
      <3>. HIDE DEF ext
      <3> QED BY <1>1, <2>2, <3>1 DEF Tells, BidsTold
    <2> QED BY <2>1, <2>2
  <1>3. AwardTold(w, ext, n)
    <2>1. w.award = IF Now("AWARD") THEN m.to ELSE r.award
      BY DEF Folded
    <2>. HIDE DEF ext
    <2> QED BY <1>1, <2>1 DEF Tells, AwardTold
  <1>4. AmountTold(w, ext, n)
    <2>1. w.amount = IF Now("ESCROW_REQUIRED") THEN m.price ELSE r.amount
      BY DEF Folded
    <2>. HIDE DEF ext
    <2> QED BY <1>1, <2>1 DEF Tells, AmountTold
  <1>5. StandingTold(w)
    <2>1. CASE m.round = n
      BY <2>1 DEF Folded, Standing, Tells, StandingTold
    <2>2. CASE m.round # n
      BY <2>2 DEF Tells
    <2> QED BY <2>1, <2>2
  <1> QED BY <1>2, <1>3, <1>4, <1>5 DEF Tells

LEMMA RoundsTell ==
  ASSUME Voiced, NEW t \in Seq(Said), NEW n \in Rounds
  PROVE  /\ stage!Feed!foldRounds(t) \in Views
         /\ Tells(stage!Feed!foldRounds(t)[n], t, n)
  <1>1. PICK F : F = {s \in Seq(Said) : stage!Feed!foldRounds(s) \in Views /\ Tells(stage!Feed!foldRounds(s)[n], s, n)}
    OBVIOUS
  <1>2. <<>> \in F
    <2>1. NewView[n] = stage!Feed!NewRound
      BY DEF NewView
    <2>2. <<>> \in Seq(Said)
      BY EmptySeq
    <2> QED BY <1>1, <2>1, <2>2, FoldNone, NewViewTyped, NothingTold
  <1>3. ASSUME NEW s \in Seq(Said), NEW m \in Said, s \in F PROVE Append(s, m) \in F
    <2>1. PICK v \in Views : v = stage!Feed!foldRounds(s)
      BY <1>1, <1>3
    <2>2. PICK w : w = stage!Feed!foldRounds(Append(s, m))
      OBVIOUS
    <2>3. w = stage!Feed!foldMessage(v, m)
      BY <2>1, <2>2, FoldMore
    <2>4. w \in Views /\ (IF m.round = n THEN Folded(v[n], m, w[n]) ELSE w[n] = v[n])
      BY <2>3, FoldMessage DEF Voiced
    <2>5. v[n] \in RoundView /\ Tells(v[n], s, n)
      BY <1>1, <1>3, <2>1 DEF Views
    <2>6. Tells(w[n], Append(s, m), n)
      BY <2>4, <2>5, TellsMore
    <2>7. Append(s, m) \in Seq(Said)
      BY AppendProperties
    <2> QED BY <1>1, <2>2, <2>4, <2>6, <2>7
  <1>4. Seq(Said) \subseteq F
    BY <1>2, <1>3, SeqSet
  <1> QED BY <1>1, <1>4

-----------------------------------------------------------------------------
(* The transcripts.                                                        *)

\* Awards and terms are of bids that were said.
Backed(t) ==
  /\ \A a, n : Spoken(a, t, "AWARD", n) => \E b : Spoken(b, t, "BID", n) /\ b.by = a.to
  /\ \A e, n : Spoken(e, t, "ESCROW_REQUIRED", n) =>
       \E a, b : Spoken(a, t, "AWARD", n) /\ Spoken(b, t, "BID", n) /\ b.by = a.to /\ b.price = e.price
Named == \A m \in Said : m.verb = "BID" => m.by # Nobody
Parts(s) == 0 .. Len(Script[s])
Scripted ==
  /\ Voiced /\ Named /\ Rounds \subseteq Nat
  /\ \A s \in stage!Sessions : /\ Script[s] \in Seq(Seq(Said)) /\ Len(Script[s]) \in Nat
                               /\ \A k \in Parts(s) : Backed(stage!Transcript(s, k))

LEMMA RangeIn == ASSUME NEW t PROVE \A x : x \in stage!Range(t) <=> In(x, t)
  BY DEF stage!Range, In

LEMMA ScriptHolds == SupportAssumption => Scripted
  <1>. SUFFICES ASSUME SupportAssumption PROVE Scripted
    OBVIOUS
  <1>1. stage!ScriptAssumption
    BY DEF SupportAssumption, stage!DemoAssumption
  <1>2. Rounds \subseteq Nat /\ Script \in Seq(Seq(Seq(Said)))
    BY <1>1 DEF stage!ScriptAssumption, Said
  <1>3. Voiced /\ Named
    BY <1>1 DEF stage!ScriptAssumption, Said, Voiced, Named
  <1>4. ASSUME NEW s \in stage!Sessions, NEW k \in Parts(s) PROVE Backed(stage!Transcript(s, k))
    <2>1. PICK t : t = stage!Transcript(s, k)
      OBVIOUS
    <2>2. PICK said : said = stage!Range(t)
      OBVIOUS
    <2>3. /\ \A a \in said : a.verb = "AWARD" => \E b \in said : b.verb = "BID" /\ b.round = a.round /\ b.by = a.to
          /\ \A e \in said : e.verb = "ESCROW_REQUIRED" =>
               \E a, b \in said : /\ a.verb = "AWARD" /\ a.round = e.round
                                  /\ b.verb = "BID" /\ b.round = e.round /\ b.by = a.to /\ b.price = e.price
      BY <1>1, <2>1, <2>2 DEF stage!ScriptAssumption, Parts
    <2>4. \A x : x \in said <=> In(x, t)
      BY <2>2, RangeIn
    <2> QED BY <2>1, <2>3, <2>4 DEF Backed, Spoken
  <1>5. ASSUME NEW s \in stage!Sessions PROVE Script[s] \in Seq(Seq(Said)) /\ Len(Script[s]) \in Nat
    <2>1. stage!Sessions = 1 .. Len(Script)
      BY DEF stage!Sessions, stage!MaxSessions
    <2>2. Script[s] \in Seq(Seq(Said))
      BY <1>2, <2>1, ElementOfSeq
    <2> QED BY <2>2, LenProperties
  <1> QED BY <1>2, <1>3, <1>4, <1>5 DEF Scripted

LEMMA TranscriptTyped ==
  ASSUME Scripted, NEW s \in stage!Sessions, NEW k \in Parts(s)
  PROVE  stage!Transcript(s, k) \in Seq(Said)
  <1>1. PICK parts : parts = SubSeq(Script[s], 1, k)
    OBVIOUS
  <1>2. Script[s] \in Seq(Seq(Said)) /\ k \in Nat /\ k <= Len(Script[s]) /\ Len(Script[s]) \in Nat
    BY DEF Scripted, Parts
  <1>3. parts \in Seq(Seq(Said)) /\ Len(parts) = k
    <2>1. \A i \in 1 .. k : Script[s][i] \in Seq(Said)
      BY <1>2, ElementOfSeq
    <2>2. SubSeq(Script[s], 1, k) \in Seq(Seq(Said)) /\ Len(SubSeq(Script[s], 1, k)) = IF 1 <= k THEN k - 1 + 1 ELSE 0
      BY <1>2, <2>1, SubSeqProperties
    <2> QED BY <1>1, <1>2, <2>2
  <1>4. stage!Transcript(s, k) = IF k = 0 THEN parts ELSE (CHOOSE f : Flattens(f, parts, k))[k]
    <2>1. stage!Transcript(s, k) = stage!Feed!collectMessages(parts)
      BY <1>1 DEF stage!Transcript
    <2>2. stage!Feed!collectMessages(parts) =
            IF Len(parts) = 0 THEN parts ELSE (CHOOSE f : Flattens(f, parts, Len(parts)))[Len(parts)]
      BY DEF stage!Feed!collectMessages, stage!Feed!FlattenSeq, Flattens
    <2> QED BY <1>3, <2>1, <2>2
  <1>5. CASE k = 0
    <2>1. parts = <<>>
      BY <1>3, <1>5, EmptySeq
    <2> QED BY <1>4, <1>5, <2>1, EmptySeq
  <1>6. CASE k # 0
    <2>1. \A i \in 1 .. k : parts[i] \in Seq(Said)
      BY <1>3, ElementOfSeq
    <2>2. PICK f : Flattens(f, parts, k) /\ stage!Transcript(s, k) = f[k]
      BY <1>2, <1>4, <1>6, FlattensExists
    <2>3. k \in 1 .. k
      BY <1>2, <1>6
    <2>4. Whole(f, Said, parts, k)
      BY <1>2, <2>1, <2>2, <2>3, FlattensAll
    <2> QED BY <2>2, <2>4 DEF Whole
  <1> QED BY <1>5, <1>6

\* What the tab shows, and every answer on its way, is what a session's agents
\* had said after some of their parts.
Answer(s, k) == s \in stage!Sessions /\ k \in Parts(s)
Polled(p) ==
  /\ p = [session |-> p.session, at |-> p.at]
  /\ p.at \in {stage!Unanswered, stage!Failed, stage!Idle.at} \/ Answer(p.session, p.at)
TabInv ==
  /\ log = [s \in stage!Sessions |-> log[s]] /\ \A s \in stage!Sessions : log[s] \in Parts(s)
  /\ polls = [i \in Slots |-> polls[i]] /\ \A i \in Slots : Polled(polls[i])
  /\ "shown" \in DOMAIN tab /\ (tab.shown = <<0, 0>> \/ Answer(tab.shown[1], tab.shown[2]))

LEMMA TabInitial == ASSUME SupportAssumption, Init PROVE TabInv
  <1>1. \A s \in stage!Sessions : 0 \in Parts(s)
    BY ScriptHolds DEF Scripted, Parts
  <1>2. /\ log = [s \in stage!Sessions |-> 0] /\ polls = [i \in Slots |-> stage!Idle]
        /\ tab.shown = <<0, 0>> /\ "shown" \in DOMAIN tab
    BY DEF Init, stage!DemoInit, stage!DashboardInit
  <1>3. Polled(stage!Idle)
    BY DEF Polled, stage!Idle
  <1> QED BY <1>1, <1>2, <1>3 DEF TabInv

\* A part more, an answer, an answer shown, and whatever else leaves all three.
LEMMA SayKeeps == ASSUME TabInv, Scripted, NEW s \in stage!Sessions, stage!Say(s) PROVE TabInv'
  <1>1. log[s] < Len(Script[s]) /\ log' = [log EXCEPT ![s] = @ + 1] /\ UNCHANGED <<tab, polls>>
    BY DEF stage!Say, stage!tabVars
  <1>2. log[s] + 1 \in Parts(s)
    BY <1>1 DEF TabInv, Parts, Scripted
  <1>3. log' = [x \in stage!Sessions |-> log'[x]] /\ \A x \in stage!Sessions : log'[x] \in Parts(x)
    BY <1>1, <1>2 DEF TabInv
  <1> QED BY <1>1, <1>3 DEF TabInv

LEMMA ServeKeeps ==
  ASSUME TabInv, live \subseteq stage!Sessions, NEW i \in Slots, stage!Serve(i)
  PROVE  TabInv'
  <1>1. PICK s : s = IF polls[i].session # 0 THEN polls[i].session ELSE feed.session
    OBVIOUS
  <1>2. PICK p : p = IF feed.up /\ s \in live THEN [session |-> s, at |-> log[s]]
                     ELSE [session |-> s, at |-> stage!Failed]
    OBVIOUS
  <1>3. polls' = [polls EXCEPT ![i] = p] /\ UNCHANGED <<log, tab>>
    BY <1>1, <1>2 DEF stage!Serve, stage!coralVars
  <1>4. Polled(p)
    BY <1>2 DEF Polled, TabInv, Answer
  <1>5. polls' = [j \in Slots |-> polls'[j]] /\ \A j \in Slots : Polled(polls'[j])
    BY <1>3, <1>4 DEF TabInv
  <1> QED BY <1>3, <1>5 DEF TabInv

LEMMA ShownKeeps == ASSUME TabInv, NEW i \in Slots, stage!Shown(i) PROVE TabInv'
  <1>1. /\ polls[i].at \notin {stage!Unanswered, stage!Idle.at} /\ UNCHANGED log
        /\ tab' = IF polls[i].at = stage!Failed THEN [tab EXCEPT !.connected = FALSE]
                  ELSE [tab EXCEPT !.connected = TRUE, !.shown = <<polls[i].session, polls[i].at>>]
        /\ polls' = [polls EXCEPT ![i] = stage!Idle]
    BY DEF stage!Shown, stage!coralVars
  <1>2. Polled(stage!Idle)
    BY DEF Polled, stage!Idle
  <1>3. polls' = [j \in Slots |-> polls'[j]] /\ \A j \in Slots : Polled(polls'[j])
    BY <1>1, <1>2 DEF TabInv
  <1>4. CASE polls[i].at = stage!Failed
    <2>1. tab'.shown = tab.shown /\ "shown" \in DOMAIN tab'
      BY <1>1, <1>4 DEF TabInv
    <2> QED BY <1>1, <1>3, <2>1 DEF TabInv
  <1>5. CASE polls[i].at # stage!Failed
    <2>1. tab'.shown = <<polls[i].session, polls[i].at>> /\ "shown" \in DOMAIN tab'
      BY <1>1, <1>5 DEF TabInv
    <2>2. Answer(polls[i].session, polls[i].at)
      BY <1>1, <1>5 DEF TabInv, Polled
    <2>3. tab'.shown[1] = polls[i].session /\ tab'.shown[2] = polls[i].at
      BY <2>1
    <2> QED BY <1>1, <1>3, <2>1, <2>2, <2>3 DEF TabInv
  <1> QED BY <1>4, <1>5

LEMMA RestKeeps ==
  ASSUME TabInv, UNCHANGED log, "shown" \in DOMAIN tab', tab'.shown \in {tab.shown, <<0, 0>>},
         polls' = [i \in Slots |-> polls'[i]], \A i \in Slots : polls'[i] = polls[i] \/ Polled(polls'[i])
  PROVE  TabInv'
  BY DEF TabInv

LEMMA PollKeeps == ASSUME TabInv, NEW i \in Slots, stage!Poll(i) PROVE TabInv'
  <1>1. PICK p : p = [session |-> tab.session, at |-> stage!Unanswered]
    OBVIOUS
  <1>2. polls' = [polls EXCEPT ![i] = p] /\ UNCHANGED <<log, tab>>
    BY <1>1 DEF stage!Poll, stage!coralVars
  <1>3. Polled(p)
    BY <1>1 DEF Polled
  <1>4. polls' = [j \in Slots |-> polls'[j]] /\ \A j \in Slots : polls'[j] = polls[j] \/ Polled(polls'[j])
    BY <1>2, <1>3 DEF TabInv
  <1>5. "shown" \in DOMAIN tab' /\ tab'.shown = tab.shown
    BY <1>2 DEF TabInv
  <1> QED BY <1>2, <1>4, <1>5, RestKeeps

\* Nothing is shown, nothing is answered.
Same == UNCHANGED <<log, polls>> /\ "shown" \in DOMAIN tab' /\ tab'.shown = tab.shown

LEMMA ClickKeeps ==
  ASSUME TabInv,
         \/ stage!Open \/ stage!Bind \/ stage!Pick \/ stage!Start \/ stage!Launched \/ stage!StartFails
  PROVE  TabInv'
  <1>1. CASE stage!Open
    BY <1>1 DEF stage!Open, stage!coralVars, TabInv, Same
  <1>2. CASE stage!Bind
    BY <1>2 DEF stage!Bind, stage!coralVars, TabInv, Same
  <1>3. CASE stage!Pick
    <2>1. \E s, p : tab' = [tab EXCEPT !.session = s] \/ tab' = [tab EXCEPT !.pinned = p]
      BY <1>3 DEF stage!Pick
    <2>2. "shown" \in DOMAIN tab' /\ tab'.shown = tab.shown
      BY <2>1 DEF TabInv
    <2>3. UNCHANGED <<log, polls>>
      BY <1>3 DEF stage!Pick, stage!coralVars
    <2> QED BY <2>2, <2>3 DEF TabInv
  <1>4. CASE stage!Start
    BY <1>4 DEF stage!Start, stage!coralVars, TabInv
  <1>5. CASE stage!Launched
    <2>1. \E s : tab' = [tab EXCEPT !.session = s, !.pinned = 0] \/ tab' = tab
      BY <1>5 DEF stage!Launched, stage!onStart
    <2>2. "shown" \in DOMAIN tab' /\ tab'.shown = tab.shown
      BY <2>1 DEF TabInv
    <2>3. UNCHANGED <<log, polls>>
      BY <1>5 DEF stage!Launched, stage!CreateSession
    <2> QED BY <2>2, <2>3 DEF TabInv
  <1>6. CASE stage!StartFails
    BY <1>6 DEF stage!StartFails, stage!coralVars, TabInv
  <1> QED BY <1>1, <1>2, <1>3, <1>4, <1>5, <1>6

LEMMA PinKeeps == ASSUME TabInv, stage!PinFeed PROVE TabInv'
  <1>1. CASE UNCHANGED <<feed, tab, polls, starting>>
    BY <1>1 DEF stage!PinFeed, stage!coralVars, TabInv
  <1>2. CASE ~ UNCHANGED <<feed, tab, polls, starting>>
    <2>1. /\ polls' = [i \in Slots |-> IF polls[i].at = stage!Unanswered THEN [polls[i] EXCEPT !.at = stage!Failed]
                                       ELSE polls[i]]
          /\ \/ tab' = tab
             \/ tab' = [tab EXCEPT !.open = FALSE, !.session = 0, !.pinned = 0,
                                   !.shown = <<0, 0>>, !.connected = FALSE]
          /\ UNCHANGED log
      BY <1>2 DEF stage!PinFeed, stage!coralVars
    <2>2. ASSUME NEW i \in Slots PROVE polls'[i] = polls[i] \/ Polled(polls'[i])
      <3>1. CASE polls[i].at = stage!Unanswered
        <4>1. polls[i] = [session |-> polls[i].session, at |-> polls[i].at]
          BY DEF TabInv, Polled
        <4>2. polls'[i] = [polls[i] EXCEPT !.at = stage!Failed]
          BY <2>1, <3>1
        <4>3. polls'[i] = [session |-> polls[i].session, at |-> stage!Failed]
          BY <4>1, <4>2
        <4> QED BY <4>3 DEF Polled
      <3>2. CASE polls[i].at # stage!Unanswered
        BY <2>1, <3>2
      <3> QED BY <3>1, <3>2
    <2>3. polls' = [i \in Slots |-> polls'[i]]
      BY <2>1
    <2>4. "shown" \in DOMAIN tab' /\ tab'.shown \in {tab.shown, <<0, 0>>}
      BY <2>1 DEF TabInv
    <2> QED BY <2>1, <2>2, <2>3, <2>4, RestKeeps
  <1> QED BY <1>1, <1>2

LEMMA TabPreserved == ASSUME SupportAssumption, DemoInv, TabInv, [Next]_vars PROVE TabInv'
  <1>1. ASSUME UNCHANGED <<log, tab, polls>> PROVE TabInv'
    BY <1>1 DEF TabInv
  <1>2. CASE stage!DashboardNext
    <2>1. live \subseteq stage!Sessions
      <3>1. stage!MaxSessions \in Nat
        BY DEF SupportAssumption, stage!DemoAssumption
      <3> QED BY <3>1 DEF DemoInv, Launches, stage!Sessions
    <2>2. Scripted
      BY ScriptHolds
    <2> QED BY <1>2, <2>1, <2>2, SayKeeps, ServeKeeps, ShownKeeps, PollKeeps, ClickKeeps DEF stage!DashboardNext
  <1>3. CASE stage!DemoNext
    <2>1. CASE stage!PinFeed
      BY <2>1, PinKeeps
    <2>2. CASE stage!DashboardNext /\ UNCHANGED stage!demoVars
      BY <1>2, <2>2
    <2>3. CASE \/ stage!Begin \/ stage!Bootstrap \/ stage!PublishToken \/ stage!StackUp \/ stage!RestartCoral
               \/ stage!LaunchSession \/ stage!die \/ stage!Configure
      <3>1. UNCHANGED <<log, tab, polls>>
        BY <2>3 DEF stage!Begin, stage!Bootstrap, stage!PublishToken, stage!StackUp, stage!RestartCoral,
           stage!LaunchSession, stage!CreateSession, stage!die, stage!Configure, stage!goesTo,
           stage!dashboardVars, stage!coralVars, stage!tabVars
      <3> QED BY <1>1, <3>1
    <2> QED BY <1>3, <2>1, <2>2, <2>3 DEF stage!DemoNext
  <1>4. CASE UNCHANGED demoVars
    BY <1>1, <1>4 DEF demoVars
  <1> QED BY <1>3, <1>4 DEF Next, Pricing, Consent, Report, Demo, vars

\* What is shown is what some agents said.
LEMMA MessagesAre ==
  ASSUME SupportAssumption, TabInv
  PROVE  stage!Messages \in Seq(Said) /\ Backed(stage!Messages)
  <1>1. Scripted
    BY ScriptHolds
  <1>2. CASE tab.shown[1] = 0
    <2>1. stage!Messages = <<>>
      BY <1>2 DEF stage!Messages
    <2>2. \A m : ~ In(m, <<>>)
      BY DEF In
    <2> QED BY <2>1, <2>2, EmptySeq DEF Backed, Spoken
  <1>3. CASE tab.shown[1] # 0
    <2>1. Answer(tab.shown[1], tab.shown[2])
      <3>1. tab.shown # <<0, 0>>
        BY <1>3
      <3> QED BY <3>1 DEF TabInv
    <2>2. stage!Messages = stage!Transcript(tab.shown[1], tab.shown[2])
      BY <1>3 DEF stage!Messages
    <2> QED BY <1>1, <2>1, <2>2, TranscriptTyped DEF Answer, Scripted
  <1> QED BY <1>2, <1>3

-----------------------------------------------------------------------------
(* The views of what is shown.                                             *)

\* The newest of the rounds that were spoken of.
LEMMA NewestRound ==
  ASSUME Voiced, Rounds \subseteq Nat, NEW t \in Seq(Said)
  PROVE  /\ IsFiniteSet({m.round : m \in stage!Range(t)})
         /\ \A m : In(m, t) => \E x : In(x, t) /\ \A y : In(y, t) => x.round >= y.round
  <1>. DEFINE RoundsOf(s) == {m.round : m \in stage!Range(s)}
              Newest(s) == \A m : In(m, s) => \E x : In(x, s) /\ \A y : In(y, s) => x.round >= y.round
  <1>1. PICK F : F = {s \in Seq(Said) : IsFiniteSet(RoundsOf(s)) /\ Newest(s)}
    OBVIOUS
  <1>2. <<>> \in F
    <2>1. \A m : ~ In(m, <<>>)
      BY DEF In
    <2>2. RoundsOf(<<>>) = {}
      BY <2>1, RangeIn
    <2>3. IsFiniteSet(RoundsOf(<<>>))
      BY <2>2, FS_EmptySet
    <2>4. Newest(<<>>) /\ <<>> \in Seq(Said)
      BY <2>1, EmptySeq
    <2> QED BY <1>1, <2>3, <2>4
  <1>3. ASSUME NEW s \in Seq(Said), NEW m \in Said, s \in F PROVE Append(s, m) \in F
    <2>1. PICK ext \in Seq(Said) : ext = Append(s, m)
      BY AppendProperties
    <2>2. \A x : In(x, ext) <=> In(x, s) \/ x = m
      BY <2>1, InAppend
    <2>3. IsFiniteSet(RoundsOf(ext))
      <3>1. RoundsOf(ext) = RoundsOf(s) \cup {m.round}
        BY <2>2, RangeIn
      <3> QED BY <1>1, <1>3, <3>1, FS_AddElement
    <2>4. \A x : In(x, ext) => x.round \in Nat
      <3>1. \A x : In(x, ext) => x \in Said
        BY <2>1, ElementOfSeq, LenProperties DEF In
      <3> QED BY <3>1 DEF Voiced
    <2>5. \E x : In(x, ext) /\ \A y : In(y, ext) => x.round >= y.round
      <3>1. CASE \E x : In(x, s)
        <4>1. PICK b : In(b, s) /\ \A y : In(y, s) => b.round >= y.round
          BY <1>1, <1>3, <3>1
        <4>2. b.round \in Nat /\ m.round \in Nat
          BY <2>2, <2>4, <4>1
        <4>3. CASE m.round >= b.round
          <5>1. ASSUME NEW y, In(y, ext) PROVE m.round >= y.round
            <6>1. y.round \in Nat /\ (b.round >= y.round \/ y = m)
              BY <2>2, <2>4, <4>1, <5>1
            <6> QED BY <4>2, <4>3, <6>1
          <5> QED BY <2>2, <5>1
        <4>4. CASE ~ m.round >= b.round
          <5>1. ASSUME NEW y, In(y, ext) PROVE b.round >= y.round
            <6>1. y.round \in Nat /\ (b.round >= y.round \/ y = m)
              BY <2>2, <2>4, <4>1, <5>1
            <6> QED BY <4>2, <4>4, <6>1
          <5> QED BY <2>2, <4>1, <5>1
        <4> QED BY <4>3, <4>4
      <3>2. CASE ~ \E x : In(x, s)
        <4>1. \A y : In(y, ext) <=> y = m
          BY <2>2, <3>2
        <4>2. m.round \in Nat
          BY <2>4, <4>1
        <4>3. m.round >= m.round
          BY <4>2
        <4> QED BY <4>1, <4>3
      <3> QED BY <3>1, <3>2
    <2> QED BY <1>1, <2>1, <2>3, <2>5
  <1>4. Seq(Said) \subseteq F
    BY <1>2, <1>3, SeqSet
  <1> QED BY <1>1, <1>4

\* The pipeline is at its end when the release was said, and past the deposit
\* when there is one or the work was delivered.
LEMMA ReachedIs ==
  ASSUME NEW r \in RoundView, r.authz # "rejected"
  PROVE  /\ stage!reachedIdx(r) = 7 <=> r.released
         /\ r.deposits > 0 \/ r.delivered => stage!reachedIdx(r) >= 5
  <1>1. PICK conds : conds = <<TRUE, r.bids # stage!Feed!NoBids, r.award # Nobody, r.authz = "verified",
                               r.deposits > 0, r.delivered, r.released>>
    OBVIOUS
  <1>2. PICK s : s = {i \in 1 .. 7 : conds[i]}
    OBVIOUS
  <1>3. DOMAIN conds = 1 .. 7
    BY <1>1
  <1>4. stage!reachedIdx(r) = Largest(s)
    BY <1>1, <1>2, <1>3 DEF stage!reachedIdx, stage!Max, Largest
  <1>5. r.delivered \in BOOLEAN /\ r.released \in BOOLEAN
    BY RoundFields
  <1>6. 1 \in s /\ (5 \in s <=> r.deposits > 0) /\ (6 \in s <=> r.delivered) /\ (7 \in s <=> r.released)
    <2>1. 1 \in s
      <3>1. conds[1] = TRUE
        BY <1>1
      <3> QED BY <1>2, <3>1
    <2>2. 5 \in s <=> r.deposits > 0
      <3>1. conds[5] = (r.deposits > 0)
        BY <1>1
      <3>2. 5 \in s <=> conds[5]
        BY <1>2
      <3>3. (r.deposits > 0) \in BOOLEAN
        OBVIOUS
      <3>4. conds[5] <=> (r.deposits > 0)
        <4>1. PICK d \in BOOLEAN : d = (r.deposits > 0)
          BY <3>3
        <4>2. conds[5] = d
          BY <3>1, <4>1
        <4> QED BY <4>1, <4>2
      <3> QED BY <3>2, <3>4
    <2>3. 6 \in s <=> r.delivered
      BY <1>1, <1>2, <1>5
    <2>4. 7 \in s <=> r.released
      BY <1>1, <1>2, <1>5
    <2> QED BY <2>1, <2>2, <2>3, <2>4
  <1>7. Largest(s) \in s /\ \A y \in s : Largest(s) >= y
    <2>1. s \in SUBSET (1 .. 7) /\ s # {} /\ 7 \in Nat
      BY <1>2, <1>6
    <2> QED BY <2>1, LargestIs
  <1>8. Largest(s) \in 1 .. 7
    BY <1>2, <1>7
  <1>9. Largest(s) = 7 <=> 7 \in s
    BY <1>7, <1>8
  <1>10. 5 \in s \/ 6 \in s => Largest(s) >= 5
    BY <1>7, <1>8
  <1> QED BY <1>4, <1>6, <1>9, <1>10

LEMMA StandingAgrees ==
  ASSUME NEW r \in RoundView, StandingTold(r)
  PROVE  /\ stage!phaseLabel(r) = "Settled" <=> r.status = "settled"
         /\ stage!terminal(r) = "none" => (stage!reachedIdx(r) = 7 <=> stage!phaseLabel(r) = "Settled")
         /\ stage!phaseLabel(r) \in {"In escrow", "Delivered"} =>
              stage!reachedIdx(r) >= 5 \/ stage!terminal(r) = "REJECTED"
  <1>1. r.status \in Standings /\ r.released \in BOOLEAN /\ r.refunded \in BOOLEAN
    BY RoundFields
  <1>2. /\ stage!phaseLabel(r) = "Settled" <=> r.status = "settled"
        /\ stage!phaseLabel(r) = "In escrow" => r.status = "deposited"
        /\ stage!phaseLabel(r) = "Delivered" => r.status = "delivered"
    BY <1>1 DEF stage!phaseLabel, Standings
  <1>3. stage!terminal(r) = "none" => r.authz # "rejected" /\ ~ r.refunded
    BY DEF stage!terminal
  <1>4. stage!terminal(r) = "REJECTED" <=> r.authz = "rejected"
    BY DEF stage!terminal
  <1> QED BY <1>1, <1>2, <1>3, <1>4, ReachedIs DEF StandingTold

\* The winner is a bidder.
LEMMA AwardIsBid ==
  ASSUME Named, NEW t \in Seq(Said), Backed(t), NEW n, NEW r, Tells(r, t, n)
  PROVE  r.award # Nobody <=> r.award \in DOMAIN r.bids
  <1>1. ASSUME r.award # Nobody PROVE r.award \in DOMAIN r.bids
    <2>1. PICK a : Spoken(a, t, "AWARD", n) /\ a.to = r.award
      BY <1>1 DEF Tells, AwardTold
    <2>2. PICK b : Spoken(b, t, "BID", n) /\ b.by = a.to
      BY <2>1 DEF Backed
    <2> QED BY <2>1, <2>2 DEF Tells, BidsTold
  <1>2. ASSUME r.award \in DOMAIN r.bids PROVE r.award # Nobody
    <2>1. PICK b : Spoken(b, t, "BID", n) /\ b.by = r.award
      BY <1>2 DEF Tells, BidsTold
    <2>2. b \in Said /\ b.verb = "BID"
      BY <2>1, ElementOfSeq, LenProperties DEF Spoken, In
    <2> QED BY <2>1, <2>2 DEF Named
  <1> QED BY <1>1, <1>2

\* In a round that is played once, what is locked is the price of the winner.
LEMMA PriceIsAmount ==
  ASSUME Named, NEW t \in Seq(Said), Backed(t), NEW n, NEW r, Tells(r, t, n), stage!PlayedOnce(t, n)
  PROVE  stage!railPrice(r) = r.amount
  <1>1. PICK said : said = {i \in DOMAIN t : t[i].round = n}
    OBVIOUS
  <1>2. /\ \E i \in said : t[i].verb = "ESCROW_REQUIRED"
        /\ \A i, j \in said : t[i].verb = t[j].verb /\ i # j =>
             /\ t[i].verb \notin {"AWARD", "ESCROW_REQUIRED"}
             /\ t[i].verb = "BID" => t[i].by # t[j].by
    BY <1>1 DEF stage!PlayedOnce
  <1>3. \A x, verb : Spoken(x, t, verb, n) => \E i \in said : t[i] = x /\ x.verb = verb
    BY <1>1 DEF Spoken, In
  <1>4. \A x, y : Spoken(x, t, "AWARD", n) /\ Spoken(y, t, "AWARD", n) => x = y
    BY <1>2, <1>3
  <1>5. \A x, y : Spoken(x, t, "ESCROW_REQUIRED", n) /\ Spoken(y, t, "ESCROW_REQUIRED", n) => x = y
    BY <1>2, <1>3
  <1>6. \A x, y : Spoken(x, t, "BID", n) /\ Spoken(y, t, "BID", n) /\ x.by = y.by => x = y
    BY <1>2, <1>3
  <1>7. PICK e : Spoken(e, t, "ESCROW_REQUIRED", n)
    BY <1>1, <1>2 DEF Spoken, In
  <1>8. e.price = r.amount
    BY <1>5, <1>7 DEF Tells, AmountTold
  <1>9. PICK a, b : Spoken(a, t, "AWARD", n) /\ Spoken(b, t, "BID", n) /\ b.by = a.to /\ b.price = e.price
    BY <1>7 DEF Backed
  <1>10. a.to = r.award
    BY <1>4, <1>9 DEF Tells, AwardTold
  <1>11. r.award \in DOMAIN r.bids
    BY <1>9, <1>10 DEF Tells, BidsTold
  <1>12. r.bids[r.award] = b.price
    BY <1>6, <1>9, <1>10, <1>11 DEF Tells, BidsTold
  <1>13. r.award # Nobody
    BY <1>11, AwardIsBid
  <1> QED BY <1>8, <1>9, <1>11, <1>12, <1>13 DEF stage!railPrice

AmountSums(g, rs, S) ==
  g = [s \in SUBSET S |-> IF s = {} THEN 0 ELSE rs[One(s)].amount + g[s \ {One(s)}]]
PriceSums(g, rs, S) ==
  g = [s \in SUBSET S |-> IF s = {} THEN 0 ELSE stage!railPrice(rs[One(s)]) + g[s \ {One(s)}]]

LEMMA SumsMeet ==
  ASSUME NEW rs, NEW S, IsFiniteSet(S), \A n \in S : stage!railPrice(rs[n]) = rs[n].amount
  PROVE  (CHOOSE g : AmountSums(g, rs, S))[S] = (CHOOSE g : PriceSums(g, rs, S))[S]
  <1>3. PICK f : f = [n \in S |-> rs[n].amount]
    OBVIOUS
  <1>4. \A s \in SUBSET S : s # {} => /\ f[One(s)] = rs[One(s)].amount
                                      /\ f[One(s)] = stage!railPrice(rs[One(s)])
    BY <1>3 DEF One
  <1>5. \A g : AmountSums(g, rs, S) <=> Sums(g, f, S)
    BY <1>4 DEF AmountSums, Sums
  <1>6. \A g : PriceSums(g, rs, S) <=> Sums(g, f, S)
    BY <1>4 DEF PriceSums, Sums
  <1>7. \E g : Sums(g, f, S)
    BY SumsExist
  <1>8. PICK g : g = CHOOSE h : AmountSums(h, rs, S)
    OBVIOUS
  <1>9. PICK p : p = CHOOSE h : PriceSums(h, rs, S)
    OBVIOUS
  <1>10. Sums(g, f, S)
    BY <1>5, <1>7, <1>8
  <1>11. Sums(p, f, S)
    BY <1>6, <1>7, <1>9
  <1>12. g[S] = p[S]
    BY <1>10, <1>11, SumsAgree
  <1> QED BY <1>8, <1>9, <1>12

LEMMA TabAgrees == ASSUME SupportAssumption, TabInv PROVE ViewsAgree
  <1>1. PICK t : t = stage!Messages
    OBVIOUS
  <1>2. PICK listed : listed = stage!Listed
    OBVIOUS
  <1>3. PICK rs : rs = stage!rounds
    OBVIOUS
  <1>4. Voiced /\ Named /\ Rounds \subseteq Nat /\ t \in Seq(Said) /\ Backed(t)
    BY <1>1, ScriptHolds, MessagesAre DEF Scripted
  <1>5. listed = {m.round : m \in stage!Range(t)}
    BY <1>1, <1>2 DEF stage!Listed
  <1>6. listed \subseteq Rounds /\ IsFiniteSet(listed)
    <2>1. \A m : In(m, t) => m \in Said
      BY <1>4, ElementOfSeq, LenProperties DEF In
    <2> QED BY <1>4, <1>5, <2>1, RangeIn, NewestRound DEF Voiced
  <1>7. rs = [n \in listed |-> stage!Feed!foldRounds(t)[n]]
    BY <1>1, <1>2, <1>3 DEF stage!rounds
  <1>8. ASSUME NEW n \in listed PROVE rs[n] \in RoundView /\ Tells(rs[n], t, n)
    <2>1. n \in Rounds /\ rs[n] = stage!Feed!foldRounds(t)[n]
      BY <1>6, <1>7
    <2>2. stage!Feed!foldRounds(t) \in Views /\ Tells(stage!Feed!foldRounds(t)[n], t, n)
      BY <1>4, <2>1, RoundsTell
    <2> QED BY <2>1, <2>2 DEF Views
  <1>9. stage!settled(rs) = {n \in listed : rs[n].status = "settled"}
    BY <1>7 DEF stage!settled
  <1>10. ASSUME listed # {} PROVE stage!focusedNum \in stage!Listed /\ (stage!following \/ stage!focusedNum = tab.pinned)
    <2>1. PICK m : In(m, t)
      BY <1>5, <1>10, RangeIn
    <2>2. PICK x : In(x, t) /\ \A y : In(y, t) => x.round >= y.round
      BY <1>4, <2>1, NewestRound
    <2>3. x.round \in listed /\ \A k \in listed : x.round >= k
      BY <1>5, <2>2, RangeIn
    <2>4. stage!Max(listed) \in listed
      BY <2>3 DEF stage!Max
    <2> QED BY <1>2, <2>4 DEF stage!focusedNum, stage!following
  <1>11. ASSUME NEW n \in listed
         PROVE  /\ stage!phaseLabel(rs[n]) = "Settled" <=> n \in stage!settled(rs)
                /\ stage!terminal(rs[n]) = "none" =>
                     (stage!reachedIdx(rs[n]) = 7 <=> stage!phaseLabel(rs[n]) = "Settled")
                /\ stage!phaseLabel(rs[n]) \in {"In escrow", "Delivered"} =>
                     stage!reachedIdx(rs[n]) >= 5 \/ stage!terminal(rs[n]) = "REJECTED"
    <2>1. PICK r \in RoundView : r = rs[n]
      BY <1>8
    <2>2. StandingTold(r)
      BY <1>8, <2>1 DEF Tells
    <2> QED BY <1>9, <2>1, <2>2, StandingAgrees
  <1>12. ASSUME \A n \in stage!settled(rs) : stage!PlayedOnce(t, n)
         PROVE  stage!totalSettled(rs) = stage!railTotal(rs)
    <2>1. PICK S : S = stage!settled(rs)
      OBVIOUS
    <2>2. IsFiniteSet(S) /\ S \subseteq listed
      BY <1>6, <1>9, <2>1, FS_Subset
    <2>3. \A n \in S : stage!railPrice(rs[n]) = rs[n].amount
      BY <1>4, <1>8, <1>12, <2>1, <2>2, PriceIsAmount
    <2>4. (CHOOSE g : AmountSums(g, rs, S))[S] = (CHOOSE g : PriceSums(g, rs, S))[S]
      BY <2>2, <2>3, SumsMeet
    <2>5. stage!totalSettled(rs) = (CHOOSE g : AmountSums(g, rs, S))[S]
      BY <2>1 DEF stage!totalSettled, stage!MapThenSumSet, stage!MapThenFoldSet, AmountSums, One
    <2>6. stage!railTotal(rs) = (CHOOSE g : PriceSums(g, rs, S))[S]
      BY <2>1 DEF stage!railTotal, stage!MapThenSumSet, stage!MapThenFoldSet, PriceSums, One
    <2> QED BY <2>4, <2>5, <2>6
  <1>13. stage!winning(rs) = {stage!railPrice(rs[n]) : n \in {x \in listed : rs[x].award # Nobody}}
    <2>1. \A n \in listed : rs[n].award # Nobody <=> rs[n].award \in DOMAIN rs[n].bids
      BY <1>4, <1>8, AwardIsBid
    <2>2. \A n \in listed : rs[n].award # Nobody => stage!railPrice(rs[n]) = rs[n].bids[rs[n].award]
      BY <2>1 DEF stage!railPrice
    <2>3. DOMAIN rs = listed
      BY <1>7
    <2> QED BY <2>1, <2>2, <2>3 DEF stage!winning
  <1> QED BY <1>1, <1>2, <1>3, <1>10, <1>11, <1>12, <1>13 DEF ViewsAgree, stage!ViewsAgree

\* Whichever answers came, late or not, the views of the tab are of one mind:
\* the pipeline's end, the label and the count of settled rounds, what was
\* locked and the prices of the rail; for any transcripts in which agents award
\* bids that were made and ask for what was bid (DealPipeline.tsx:31-66,
\* Negotiation.tsx:145-153, StatsStrip.tsx:7-22).
THEOREM ViewsAreOfOneMind == Spec => []ViewsAgree
  <1>1. Init => DemoInv /\ TabInv
    BY DemoInitial, TabInitial, SupportAssumption
  <1>2. DemoInv /\ TabInv /\ [Next]_vars => (DemoInv /\ TabInv)'
    BY DemoPreserved, TabPreserved, SupportAssumption
  <1>3. DemoInv /\ TabInv => ViewsAgree
    BY TabAgrees, SupportAssumption
  <1> QED BY <1>1, <1>2, <1>3, PTL DEF Spec
==============================================================================
