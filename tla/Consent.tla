-------------------------------- MODULE Consent --------------------------------
(***************************************************************************)
(* The consent of one round, from the buyer's configuration to the rules   *)
(* of engagement the engine is given (packages/authorization, and its use  *)
(* in the audit agents and runAudit).  The nonce is published before the   *)
(* session begins and anything may happen to it later; the seller looks at *)
(* the grant when it is awarded and again when the money is there.         *)
(*                                                                         *)
(* A hash tells payloads apart, a signature is of a key and a payload.     *)
(***************************************************************************)
EXTENDS Scope

CONSTANTS
  Allowlisted, Elsewhere,   \* TARGET_ALLOWLIST, and other origins
  Scopes,       \* AUDIT_SCOPES, the list of codes of a round
  Depths,       \* AUDIT_DEPTH
  Nonces,
  Ttl, MaxClock,
  BuyerKey, OtherKey,
  Nothing

ConsentAssumption ==
  /\ ScopeAssumption /\ \A asked \in Scopes : asked \in Seq(Range(asked))
  /\ {Ttl, MaxClock} \subseteq Nat /\ Nothing # "ok"

VARIABLES
  clock,
  published,    \* method -> the nonce at the target, Nothing when unreadable
  config,       \* the buyer's: [target, asked, depth, nonce, method]
  arg,          \* of the WANT
  signed,       \* the grant as it was issued
  wire,         \* the grant as it arrived
  verdict,      \* of the last gate
  rules,        \* the rules of engagement, once the engine starts
  begun         \* history: clock and publication at that time

consentVars == <<clock, published, config, arg, signed, wire, verdict, rules, begun>>

Methods == {"well-known", "dns-txt"}
-------------------------------------------------------------------------------
isAllowlisted(target) == target \in Allowlisted

\* The proof names the method, the nonce and where it is to be found.
buildOwnershipProof(method, nonce, target) ==
  [method |-> method, nonce |-> nonce, evidence |-> <<method, target>>]

\* Of the payload in its canonical form: equal for equal payloads only.
authorizationHash(payload) == <<"hash", payload>>

\* The signer is the buyer of the payload, or nothing is signed.
signAuthorization(payload, key) ==
  IF payload.buyerPubkey # key THEN Nothing
  ELSE [payload |-> payload, signature |-> <<key, payload>>,
             authzHash |-> authorizationHash(payload)]

issueAuthorization(c, scope) ==
  signAuthorization(
    [target |-> c.target, buyerPubkey |-> BuyerKey, scope |-> scope,
     ownershipProof |-> buildOwnershipProof(c.method, c.nonce, c.target),
     issuedAt |-> clock, validUntil |-> clock + Ttl], BuyerKey)

\* The schema of what is decoded.
SignedAuthorization(token) ==
  /\ ScopeParses(token.payload.scope)
  /\ token.payload.ownershipProof.method \in Methods

\* A grant that does not decode, or not to the schema, is Nothing.
decodeGrant(token) == IF token # Nothing /\ SignedAuthorization(token) THEN token ELSE Nothing

verifySignature(g) ==
  IF g.authzHash # authorizationHash(g.payload) THEN "HASH_MISMATCH"
  ELSE IF g.signature # <<g.payload.buyerPubkey, g.payload>> THEN "BAD_SIGNATURE" ELSE "ok"

\* Read at the target, each time.
verifyDomainControl(proof) ==
  proof.nonce # Nothing /\ published[proof.method] = proof.nonce

\* A variant that checks the time window when consent is first asked for only.
verifyWithoutClock(g) ==
  IF verifySignature(g) # "ok" THEN verifySignature(g)
  ELSE IF ~ isAllowlisted(g.payload.target) THEN "TARGET_NOT_ALLOWLISTED"
  ELSE IF checkScopeWithinPolicy(g.payload.scope, DEFAULT_SCOPE_POLICY) # {}
       THEN "SCOPE_EXCEEDS_POLICY"
  ELSE IF ~ verifyDomainControl(g.payload.ownershipProof) THEN "DOMAIN_CONTROL_UNVERIFIED"
  ELSE "ok"

\* The first failure is the code.
verifyAuthorization(g) ==
  IF verifySignature(g) # "ok" THEN verifySignature(g)
  ELSE IF ~ isAllowlisted(g.payload.target) THEN "TARGET_NOT_ALLOWLISTED"
  ELSE IF clock < g.payload.issuedAt THEN "NOT_YET_VALID"
  ELSE IF clock > g.payload.validUntil THEN "EXPIRED"
  ELSE IF checkScopeWithinPolicy(g.payload.scope, DEFAULT_SCOPE_POLICY) # {}
       THEN "SCOPE_EXCEEDS_POLICY"
  ELSE IF ~ verifyDomainControl(g.payload.ownershipProof) THEN "DOMAIN_CONTROL_UNVERIFIED"
  ELSE "ok"
-------------------------------------------------------------------------------
Configs == [target : Allowlisted \cup Elsewhere, asked : Scopes, depth : Depths,
            nonce : Nonces, method : Methods]

ConsentInit ==
  /\ clock = 0
  /\ published \in [Methods -> {Nothing} \cup Nonces]
  /\ config \in Configs
  /\ arg = Nothing /\ signed = Nothing /\ wire = Nothing /\ verdict = Nothing
  /\ rules = Nothing /\ begun = Nothing

\* write-token.mjs, or an operator: the next demo publishes its own nonce.
Publish ==
  /\ \E m \in Methods, n \in Nonces \cup {Nothing} : published' = [published EXCEPT ![m] = n]
  /\ UNCHANGED <<clock, config, arg, signed, wire, verdict, rules, begun>>

Tick ==
  /\ clock < MaxClock /\ clock' = clock + 1
  /\ UNCHANGED <<published, config, arg, signed, wire, verdict, rules, begun>>

\* The WANT carries the codes in their canonical order.
Want ==
  /\ arg = Nothing /\ arg' = encodeScopeArg(decodeScopeArg(config.asked))
  /\ UNCHANGED <<clock, published, config, signed, wire, verdict, rules, begun>>

\* After the award.  A scope the schema refuses fails the round.
Grant ==
  LET scope == [categories |-> decodeScopeArg(config.asked), maxDepth |-> config.depth,
                maxDurationSeconds |-> 900, nonDestructive |-> TRUE] IN
  /\ arg # Nothing /\ signed = Nothing /\ ScopeParses(scope)
  /\ signed' = issueAuthorization(config, scope)
  /\ UNCHANGED <<clock, published, config, arg, wire, verdict, rules, begun>>

\* What arrives of it: the token, one that does not decode, or one of which a
\* field was changed on the way.
Arrive ==
  /\ signed # Nothing /\ wire = Nothing
  /\ \E token \in {signed, Nothing, [signed EXCEPT !.payload.validUntil = MaxClock],
                   [signed EXCEPT !.payload.buyerPubkey = OtherKey,
                                  !.authzHash = authorizationHash([signed.payload EXCEPT !.buyerPubkey = OtherKey])]} :
       wire' = decodeGrant(token)
  /\ UNCHANGED <<clock, published, config, arg, signed, verdict, rules, begun>>

\* proceedIfReady: before the escrow terms are sent.
AwardGate ==
  /\ wire # Nothing /\ verdict = Nothing
  /\ verdict' = verifyAuthorization(wire)
  /\ UNCHANGED <<clock, published, config, arg, signed, wire, rules, begun>>

\* What the engine is told to keep to.
buildInstruction(target, scope) == [target |-> target, scope |-> scope]

\* runAudit: the gate again, and only then the rules of this grant.
runAudit(g) ==
  /\ verdict' = verifyAuthorization(g)
  /\ IF verdict' = "ok"
     THEN /\ rules' = buildInstruction(g.payload.target, g.payload.scope)
          /\ begun' = [clock |-> clock, published |-> published]
     ELSE UNCHANGED <<rules, begun>>

\* Once the escrow is funded, with the grant that was kept since the award.
deliverAudit ==
  /\ verdict = "ok" /\ rules = Nothing /\ runAudit(wire)
  /\ UNCHANGED <<clock, published, config, arg, signed, wire>>

\* The next round of the same session.
NextRound ==
  /\ arg # Nothing
  /\ arg' = Nothing /\ signed' = Nothing /\ wire' = Nothing /\ verdict' = Nothing
  /\ rules' = Nothing /\ begun' = Nothing
  /\ UNCHANGED <<clock, published, config>>

ConsentNext ==
  \/ Publish \/ Tick \/ Want \/ Grant \/ Arrive \/ AwardGate \/ deliverAudit \/ NextRound
-------------------------------------------------------------------------------
\* The engine works by what the buyer signed and every bidder read in the WANT,
\* on an allowlisted target, and only after a check that found the grant in its
\* time and its nonce at the target then, whatever was replaced, delayed or
\* garbled since it was issued (verifier.ts:41-93, deliver.ts:89-123).
EngineKeepsTheGrant ==
  rules # Nothing =>
    LET p == signed.payload IN
    /\ wire = signed /\ rules = [target |-> p.target, scope |-> p.scope]
    /\ encodeScopeArg(rules.scope.categories) = arg
    /\ Range(rules.scope.categories) = Range(decodeScopeArg(arg))
    /\ p.issuedAt <= begun.clock /\ begun.clock <= p.validUntil
    /\ begun.published[p.ownershipProof.method] = config.nonce
    /\ rules.target \in Allowlisted /\ checkScopeWithinPolicy(rules.scope, DEFAULT_SCOPE_POLICY) = {}
===============================================================================
