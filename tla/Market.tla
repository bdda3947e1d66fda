------------------------------- MODULE Market -------------------------------
(***************************************************************************)
(* The audit market: one buyer agent (coral-agents/audit-buyer) that runs  *)
(* one procurement round after another, the seller agents (audit-seller)   *)
(* that bid, verify consent, wait for the deposit and deliver, the Coral   *)
(* inbox each agent reads its mentions from, and the escrow, taken at the  *)
(* level of Settlement (which Escrow and Arbiter implement).               *)
(*                                                                         *)
(* An agent keeps its maps in memory and loses them when it dies.  A round *)
(* number is all that ties most messages to a deal; an escrow reference,   *)
(* derived from the hash of an authorization and the round, is the only    *)
(* name a deal has that no other deal shares.                              *)
(***************************************************************************)
EXTENDS Naturals, Sequences, SequencesExt, FiniteSets

CONSTANTS
  Buyer,           \* the name of the buyer agent
  Sellers,         \* the names of the seller agents
  Wallets,         \* payout wallets
  WalletOf,        \* SELLER_WALLET of each seller
  ExpectedWallets, \* the wallets the buyer accepts: all of them, or one
  Quotes,          \* the prices each seller may quote, by its persona
  ArbiterSellers,  \* the sellers that ask for arbitrated settlement
  BuyerHasArbiter, \* the buyer was started with the arbiter's key
  MaxRound,        \* bound of the rounds of one buyer process
  MaxIssue,        \* bound of the authorizations ever issued
  MaxRestarts,     \* bound of the buyer's restarts
  MaxCrashes,      \* bound of the sellers' restarts
  Reorder,         \* messages of one inbox may be read out of order
  FaultModes,      \* whether a behaviour may have faults (TRUE), or not (FALSE)
  None

ASSUME MarketAssumption ==
  /\ Buyer \notin Sellers
  /\ WalletOf \in [Sellers -> Wallets]
  /\ ExpectedWallets \subseteq Wallets
  /\ Quotes \in [Sellers -> SUBSET Nat]
  /\ ArbiterSellers \subseteq Sellers
  /\ {MaxRound, MaxIssue, MaxRestarts, MaxCrashes} \subseteq Nat
  /\ {BuyerHasArbiter, Reorder} \cup FaultModes \subseteq BOOLEAN
  /\ MaxIssue >= MaxRound * (MaxRestarts + 1)  \* one for every round

Prices == UNION {Quotes[s] : s \in Sellers}
Agents == Sellers \cup {Buyer}
Rounds == 1 .. MaxRound
Issues == 1 .. MaxIssue

\* deriveEscrowReference(authzHash, round) is a hash of both, so it is as good
\* as the pair.  Two authorizations never share a hash: each is stamped with
\* the time it was issued.
References == Issues \X Rounds

VARIABLES
  \* the buyer process
  pc,       \* where its loop is
  round,    \* the round it is in, from 1 again in a new process
  bids,     \* the last bid of each seller in this round
  winner,   \* the seller it awarded this round to
  issue,    \* the authorization it issued in this round
  terms,    \* the ESCROW_REQUIRED it accepted
  \* the maps of each seller process
  quoted,   \* round -> the price it quoted
  grants,   \* round -> the authorization it received
  pending,  \* round -> the price of an award that waits for its grant
  awarded,  \* reference -> the price of a deal that waits for its deposit
  job,      \* the deal it is delivering
  \* the world
  inbox,    \* the mentions each agent has not read
  order,    \* the escrow of each reference (Settlement)
  locked,   \* the amount deposited for each reference
  valid,    \* the authorizations that would pass a verification now
  faulty,   \* in this behaviour calls may fail, messages get lost, waits
            \* time out, and consent and deposits run out
  restarts, crashes,
  \* history
  deal,     \* what each authorization was issued for
  progress  \* how far the sellers got with each reference

buyerVars   == <<pc, round, bids, winner, issue, terms>>
sellerVars  == <<quoted, grants, pending, awarded, job>>
escrowVars  == <<order, locked>>
faultVars   == <<faulty, restarts, crashes>>
historyVars == <<deal, progress>>
vars == <<buyerVars, sellerVars, inbox, escrowVars, valid, faultVars, historyVars>>

Settlement == INSTANCE Settlement WITH
  Orders <- References, Payees <- Wallets, NoOrder <- None

Messages ==
  [type: {"WANT"}, round: Rounds]
  \cup [type: {"BID"}, round: Rounds, by: Sellers, price: Prices]
  \cup [type: {"AWARD"}, round: Rounds]
  \cup [type: {"GRANT"}, round: Rounds, issue: Issues]
  \cup [type: {"ESCROW_REQUIRED"}, round: Rounds, reference: References,
        seller: Wallets, amount: Prices, arbitrated: BOOLEAN]
  \cup [type: {"DEPOSITED"}, round: Rounds, reference: References]
  \cup [type: {"DELIVERED"}, round: Rounds, report: Issues \cup {None}]

\* What an authorization was issued for; None is no such record, nor an order.
Deals == [round: Rounds, to: Sellers, price: Prices]

ASSUME NoneAssumption ==
  None \notin Deals \cup [payee: Wallets, place: Settlement!Places]

TypeOK ==
  /\ pc \in {"sleep", "collect", "grant", "terms", "deposit", "announce",
             "delivery", "release"}
  /\ round \in 0 .. MaxRound
  /\ bids \in [Sellers -> Prices \cup {None}]
  /\ winner \in Sellers \cup {None}
  /\ issue \in Issues \cup {None}
  /\ terms \in {m \in Messages : m.type = "ESCROW_REQUIRED"} \cup {None}
  /\ quoted \in [Sellers -> [Rounds -> Prices \cup {None}]]
  /\ grants \in [Sellers -> [Rounds -> Issues \cup {None}]]
  /\ pending \in [Sellers -> [Rounds -> Prices \cup {None}]]
  /\ awarded \in [Sellers -> [References -> Prices \cup {None}]]
  /\ job \in [Sellers -> [reference: References, price: Prices,
                          stage: {"checking", "scanning"}] \cup {None}]
  /\ inbox \in [Agents -> Seq(Messages)]
  /\ Settlement!TypeOK
  /\ locked \in [References -> Prices \cup {None}]
  /\ valid \subseteq Issues
  /\ faulty \in BOOLEAN
  /\ restarts \in 0 .. MaxRestarts
  /\ crashes \in 0 .. MaxCrashes
  /\ deal \in [Issues -> Deals \cup {None}]
  /\ progress \in [References -> {"none", "verified", "begun", "reported"}]

Empty(S) == [x \in S |-> None]

Init ==
  /\ pc = "sleep" /\ round = 0 /\ bids = Empty(Sellers)
  /\ winner = None /\ issue = None /\ terms = None
  /\ quoted = [s \in Sellers |-> Empty(Rounds)]
  /\ grants = [s \in Sellers |-> Empty(Rounds)]
  /\ pending = [s \in Sellers |-> Empty(Rounds)]
  /\ awarded = [s \in Sellers |-> Empty(References)]
  /\ job = Empty(Sellers)
  /\ inbox = [a \in Agents |-> <<>>]
  /\ Settlement!Init
  /\ locked = Empty(References)
  /\ valid = {}
  /\ faulty \in FaultModes
  /\ restarts = 0 /\ crashes = 0
  /\ deal = Empty(Issues)
  /\ progress = [k \in References |-> "none"]
-----------------------------------------------------------------------------
(***************************************************************************)
(* Coral.  An agent reads one mention at a time.  The response may hold    *)
(* several messages, of which parseMention keeps the first: the others are *)
(* lost (Lose).                                                            *)
(***************************************************************************)
Readable(a) == IF Reorder THEN DOMAIN inbox[a] ELSE DOMAIN inbox[a] \cap {1}

\* Agent a takes its n-th message.
Take(a, n) == inbox' = [inbox EXCEPT ![a] = RemoveAt(@, n)]

\* Agent a takes its n-th message and answers agent b with m, unless the call
\* that sends the answer fails.
TakeAndReply(a, n, b, m) ==
  \/ inbox' = [inbox EXCEPT ![a] = RemoveAt(@, n), ![b] = Append(@, m)]
  \/ faulty /\ Take(a, n)

Send(S, m) ==
  inbox' = [a \in Agents |-> IF a \in S THEN Append(inbox[a], m) ELSE inbox[a]]

Lose(a) ==
  /\ faulty
  /\ inbox[a] # <<>>
  /\ inbox' = [inbox EXCEPT ![a] = Tail(@)]
  /\ UNCHANGED <<buyerVars, sellerVars, escrowVars, valid, faultVars, historyVars>>
-----------------------------------------------------------------------------
(***************************************************************************)
(* The buyer's round.                                                      *)
(***************************************************************************)
worldVars == <<escrowVars, valid, faultVars, historyVars>>

\* What each of the buyer's waits is for.
Awaited == [collect |-> "BID", terms |-> "ESCROW_REQUIRED", delivery |-> "DELIVERED"]

Matches(m) == m.type = Awaited[pc] /\ m.round = round

\* What a round leaves behind: its variables go out of scope.
EndRound ==
  /\ pc' = "sleep"
  /\ bids' = Empty(Sellers)
  /\ winner' = None /\ issue' = None /\ terms' = None
  /\ UNCHANGED round

Want ==
  /\ pc = "sleep"
  /\ round < MaxRound
  /\ round' = round + 1
  /\ pc' = "collect"
  /\ Send(Sellers, [type |-> "WANT", round |-> round'])
  /\ UNCHANGED <<bids, winner, issue, terms, sellerVars, worldVars>>

CollectBid ==
  /\ pc = "collect"
  /\ \E n \in Readable(Buyer) :
       LET m == inbox[Buyer][n] IN
       /\ Matches(m)
       /\ bids' = [bids EXCEPT ![m.by] = m.price]
       /\ Take(Buyer, n)
  /\ UNCHANGED <<pc, round, winner, issue, terms, sellerVars, worldVars>>

NoSellers ==
  /\ pc = "collect"
  /\ bids = Empty(Sellers)  \* the pool is empty
  /\ faulty
  /\ EndRound
  /\ UNCHANGED <<inbox, sellerVars, worldVars>>

\* selectBids keeps the last bid of each seller.  A model picks one of them, or
\* the cheapest wins: any bidder may.
Pool == {s \in Sellers : bids[s] # None}

\* The bidding window closes.
Award ==
  /\ pc = "collect"
  /\ \E s \in Pool :
       /\ winner' = s
       /\ Send({s}, [type |-> "AWARD", round |-> round])
  /\ pc' = "grant"
  /\ UNCHANGED <<round, bids, issue, terms, sellerVars, worldVars>>

\* issueAuthorization stamps each authorization with its time: it is a new one.
Fresh(i) ==
  /\ deal[i] = None
  /\ \A j \in Issues : deal[j] = None => i <= j

\* issueAuthorization and AUTHZ_GRANT.  The target may not publish the nonce,
\* or policy may not allow the scope: then the authorization is never valid.
Grant ==
  /\ pc = "grant"
  /\ \E i \in Issues :
       /\ Fresh(i)
       /\ issue' = i
       /\ deal' = [deal EXCEPT ![i] = [round |-> round, to |-> winner,
                                       price |-> bids[winner]]]
       /\ \/ valid' = valid \cup {i}
          \/ faulty /\ UNCHANGED valid
       /\ Send({winner}, [type |-> "GRANT", round |-> round, issue |-> i])
  /\ pc' = "terms"
  /\ UNCHANGED <<round, bids, winner, terms, sellerVars, escrowVars, faultVars,
                 progress>>

\* A variant that does not compare the reference.
PayoutAcceptable(m) == m.seller \in ExpectedWallets

\* payoutMatches, and the reference bound to our own authorization.
Acceptable(m) ==
  /\ m.seller \in ExpectedWallets
  /\ m.reference = <<issue, round>>

\* The first ESCROW_REQUIRED of this round decides, whoever sent it.
ReceiveTerms ==
  /\ pc = "terms"
  /\ \E n \in Readable(Buyer) :
       LET m == inbox[Buyer][n] IN
       /\ Matches(m)
       /\ Take(Buyer, n)
       /\ \/ /\ Acceptable(m)
             /\ terms' = m
             /\ pc' = "deposit"
             /\ UNCHANGED <<round, bids, winner, issue>>
          \/ ~ Acceptable(m) /\ EndRound
  /\ UNCHANGED <<sellerVars, worldVars>>

\* deposit or openArbitrated: the account of this reference is created.
Lock(m) ==
  /\ Settlement!Open(m.reference, m.seller)
  /\ locked' = [locked EXCEPT ![m.reference] = m.amount]

\* The deposit fails when the buyer lacks the arbiter's key, or when the
\* escrow account exists; the round then ends in its catch.
Deposit ==
  /\ pc = "deposit"
  /\ terms.arbitrated => BuyerHasArbiter
  /\ Lock(terms)
  /\ pc' = "announce"
  /\ UNCHANGED <<round, bids, winner, issue, terms, inbox, sellerVars, valid,
                 faultVars, historyVars>>

\* Variants that pay without waiting for the report, and that name the payout
\* wallet where the reference belongs.
AnnounceAndPay ==
  /\ pc = "announce"
  /\ Send({winner}, [type |-> "DEPOSITED", round |-> round,
                     reference |-> terms.reference])
  /\ pc' = "release"
  /\ UNCHANGED <<round, bids, winner, issue, terms, sellerVars, worldVars>>

AnnounceWallet ==
  /\ pc = "announce"
  /\ Send({winner}, [type |-> "DEPOSITED", round |-> round,
                     reference |-> terms.seller])
  /\ pc' = "delivery"
  /\ UNCHANGED <<round, bids, winner, issue, terms, sellerVars, worldVars>>

Announce ==
  /\ pc = "announce"
  /\ Send({winner}, [type |-> "DEPOSITED", round |-> round,
                     reference |-> terms.reference])
  /\ pc' = "delivery"
  /\ UNCHANGED <<round, bids, winner, issue, terms, sellerVars, worldVars>>

\* evaluateReport: the deliverable parses, and its correlation id is the one
\* of this deal.  The id is made of the round and the target's nonce, so the
\* authorizations of equal rounds share it.
Payable(report) == report # None /\ deal[report].round = round

\* The first DELIVERED of this round decides, whoever sent it.
ReceiveReport ==
  /\ pc = "delivery"
  /\ \E n \in Readable(Buyer) :
       LET m == inbox[Buyer][n] IN
       /\ Matches(m)
       /\ Take(Buyer, n)
       /\ \/ /\ Payable(m.report)
             /\ pc' = "release"
             /\ UNCHANGED <<round, bids, winner, issue, terms>>
          \/ ~ Payable(m.report) /\ EndRound
  /\ UNCHANGED <<sellerVars, worldVars>>

\* release or arbitrateRelease, by the mode of the deposit; both pay the seller
\* named then.
PayOut(m) == Settlement!Pay(m.reference) /\ UNCHANGED locked

\* Nobody acts on the RELEASED that follows.
Pay ==
  /\ pc = "release"
  /\ PayOut(terms)
  /\ EndRound
  /\ UNCHANGED <<inbox, sellerVars, valid, faultVars, historyVars>>

\* A mention that is not what the current wait is for is dropped.
Discard ==
  /\ pc \in DOMAIN Awaited
  /\ \E n \in Readable(Buyer) : ~ Matches(inbox[Buyer][n]) /\ Take(Buyer, n)
  /\ UNCHANGED <<buyerVars, sellerVars, worldVars>>

\* A variant that waits for the report without a bound.
RoundFailsBeforeDelivery ==
  /\ faulty
  /\ pc \notin {"sleep", "delivery"}
  /\ EndRound
  /\ UNCHANGED <<inbox, sellerVars, worldVars>>

\* A bounded wait runs out, or a call throws into the catch of the loop.  A
\* transaction may have landed, or a message been sent, although its call
\* failed: then the step it belongs to has been taken before this one.
RoundFails ==
  /\ faulty
  /\ pc # "sleep"
  /\ EndRound
  /\ UNCHANGED <<inbox, sellerVars, worldVars>>

\* Coral respawns an agent that died.  Its unread mentions may be gone.
BuyerRestarts ==
  /\ faulty
  /\ restarts < MaxRestarts
  /\ restarts' = restarts + 1
  /\ round' = 0
  /\ pc' = "sleep"
  /\ bids' = Empty(Sellers)
  /\ winner' = None /\ issue' = None /\ terms' = None
  /\ inbox' \in {inbox, [inbox EXCEPT ![Buyer] = <<>>]}
  /\ UNCHANGED <<sellerVars, escrowVars, valid, faulty, crashes, historyVars>>
-----------------------------------------------------------------------------
(***************************************************************************)
(* A seller.                                                               *)
(***************************************************************************)
\* verifyAuthorization: signature, allowlist, time window, scope policy and the
\* live check of the target.
Verified(i) == i \in valid

restOfSeller == <<buyerVars, escrowVars, valid, faultVars, deal>>

\* A variant that remembers another price than the one it bids.
ReceiveWantMisquoting(s, n) ==
  LET m == inbox[s][n] IN
  /\ m.type = "WANT"
  /\ \E price, other \in Quotes[s] :
       /\ quoted' = [quoted EXCEPT ![s][m.round] = other]
       /\ TakeAndReply(s, n, Buyer, [type |-> "BID", round |-> m.round,
                                     by |-> s, price |-> price])
  /\ UNCHANGED <<grants, pending, awarded, job, restOfSeller, progress>>

ReceiveWant(s, n) ==
  LET m == inbox[s][n] IN
  /\ m.type = "WANT"
  /\ \/ \E price \in Quotes[s] :
          /\ quoted' = [quoted EXCEPT ![s][m.round] = price]
          /\ TakeAndReply(s, n, Buyer, [type |-> "BID", round |-> m.round,
                                        by |-> s, price |-> price])
     \/ faulty /\ Take(s, n) /\ UNCHANGED quoted  \* its strategy declines
  /\ UNCHANGED <<grants, pending, awarded, job, restOfSeller, progress>>

\* A variant that opens the escrow before consent is verified.
ProceedUnverified(s, n, r, prices, tokens) ==
  LET ready == prices[r] # None /\ tokens[r] # None
      k     == <<tokens[r], r>>
  IN
  /\ grants' = [grants EXCEPT ![s] = tokens]
  /\ UNCHANGED progress
  /\ \/ ~ ready /\ Take(s, n)
        /\ pending' = [pending EXCEPT ![s] = prices]
        /\ UNCHANGED awarded
     \/ /\ ready
        /\ pending' = [pending EXCEPT ![s] = [prices EXCEPT ![r] = None]]
        /\ awarded' = [awarded EXCEPT ![s][k] = prices[r]]
        /\ TakeAndReply(s, n, Buyer,
             [type |-> "ESCROW_REQUIRED", round |-> r, reference |-> k,
              seller |-> WalletOf[s], amount |-> prices[r],
              arbitrated |-> s \in ArbiterSellers])

\* proceedIfReady, with the maps as the handler that calls it has left them.
\* Every outcome but the first has a call behind it that may fail or refuse.
ProceedIfReady(s, n, r, prices, tokens) ==
  LET ready == prices[r] # None /\ tokens[r] # None
      k     == <<tokens[r], r>>
      Keep(p, t) == /\ pending' = [pending EXCEPT ![s] = p]
                    /\ grants' = [grants EXCEPT ![s] = t]
  IN
  \/ /\ ~ ready \/ faulty   \* not ready, or AUTHZ_RESULT cannot be sent
     /\ Keep(prices, tokens)
     /\ Take(s, n)
     /\ UNCHANGED <<awarded, progress>>
  \/ /\ ready               \* consent refused: no work
     /\ ~ Verified(tokens[r]) \/ faulty
     /\ Keep([prices EXCEPT ![r] = None], [tokens EXCEPT ![r] = None])
     /\ Take(s, n)
     /\ UNCHANGED <<awarded, progress>>
  \/ /\ ready               \* consent verified: open the escrow
     /\ Verified(tokens[r])
     /\ Keep([prices EXCEPT ![r] = None], tokens)
     /\ awarded' = [awarded EXCEPT ![s][k] = prices[r]]
     /\ progress' = [progress EXCEPT ![k] = IF @ = "none" THEN "verified" ELSE @]
     /\ TakeAndReply(s, n, Buyer,
          [type |-> "ESCROW_REQUIRED", round |-> r, reference |-> k,
           seller |-> WalletOf[s], amount |-> prices[r],
           arbitrated |-> s \in ArbiterSellers])

\* A variant that only keeps the grant, for an award to come.
StoreGrant(s, n) ==
  LET m == inbox[s][n] IN
  /\ m.type = "GRANT"
  /\ grants' = [grants EXCEPT ![s][m.round] = m.issue]
  /\ Take(s, n)
  /\ UNCHANGED <<quoted, pending, awarded, progress, job, restOfSeller>>

ReceiveGrant(s, n) ==
  LET m == inbox[s][n] IN
  /\ m.type = "GRANT"
  /\ ProceedIfReady(s, n, m.round, pending[s],
                    [grants[s] EXCEPT ![m.round] = m.issue])
  /\ UNCHANGED <<quoted, job, restOfSeller>>

\* An award of a round this process did not quote is ignored.
ReceiveAward(s, n) ==
  LET m == inbox[s][n]
      r == m.round
  IN
  /\ m.type = "AWARD"
  /\ \/ /\ quoted[s][r] # None
        /\ quoted' = [quoted EXCEPT ![s][r] = None]
        /\ ProceedIfReady(s, n, r, [pending[s] EXCEPT ![r] = quoted[s][r]], grants[s])
     \/ /\ quoted[s][r] = None
        /\ Take(s, n)
        /\ UNCHANGED <<quoted, grants, pending, awarded, progress>>
  /\ UNCHANGED <<job, restOfSeller>>

\* isFunded: a live escrow of this reference that names our wallet and holds
\* at least the price.
Funded(s, k) ==
  /\ Settlement!Locked(k)
  /\ order[k].payee = WalletOf[s]
  /\ locked[k] >= awarded[s][k]

\* A deposit that cannot be confirmed is answered with an ERROR nobody acts on.
ReceiveDeposited(s, n) ==
  LET m == inbox[s][n]
      k == m.reference
      price == awarded[s][k]
  IN
  /\ m.type = "DEPOSITED"
  /\ Take(s, n)
  /\ \/ /\ price # None /\ Funded(s, k)
        /\ awarded' = [awarded EXCEPT ![s][k] = None]
        /\ job' = [job EXCEPT ![s] = [reference |-> k, price |-> price,
                                      stage |-> "checking"]]
        /\ progress' = [progress EXCEPT ![k] = "begun"]
     \/ /\ ~ (price # None /\ Funded(s, k)) \/ faulty
        /\ UNCHANGED <<awarded, job, progress>>
  /\ UNCHANGED <<quoted, grants, pending, restOfSeller>>

\* A seller reads its mentions when it is not delivering.
Read(s) ==
  /\ job[s] = None
  /\ \E n \in Readable(s) :
       \/ ReceiveWant(s, n)
       \/ ReceiveGrant(s, n)
       \/ ReceiveAward(s, n)
       \/ ReceiveDeposited(s, n)

restOfJob == <<quoted, grants, pending, awarded, restOfSeller>>

\* runAudit verifies the authorization again before it scans.
StartScan(s) ==
  /\ job[s] # None /\ job[s].stage = "checking"
  /\ Verified(job[s].reference[1])
  /\ job' = [job EXCEPT ![s].stage = "scanning"]
  /\ UNCHANGED <<inbox, progress, restOfJob>>

\* The report carries the correlation id of the authorization; what a scanner
\* made of it may not parse.
Deliver(s) ==
  LET k == job[s].reference IN
  /\ job[s] # None /\ job[s].stage = "scanning"
  /\ \E report \in {k[1]} \cup (IF faulty THEN {None} ELSE {}) :
       inbox' = [inbox EXCEPT ![Buyer] = Append(@,
                   [type |-> "DELIVERED", round |-> k[2], report |-> report])]
  /\ progress' = [progress EXCEPT ![k] = "reported"]
  /\ job' = [job EXCEPT ![s] = None]
  /\ UNCHANGED restOfJob

\* A variant that does not come back from a refusal.
AbandonScan(s) ==
  /\ job[s] # None /\ job[s].stage = "scanning"
  /\ faulty
  /\ job' = [job EXCEPT ![s] = None]
  /\ UNCHANGED <<inbox, progress, restOfJob>>

\* Consent is refused at the second verification, the scan fails, or the
\* report cannot be sent: no DELIVERED.
Abandon(s) ==
  /\ job[s] # None
  /\ faulty
  /\ job' = [job EXCEPT ![s] = None]
  /\ UNCHANGED <<inbox, progress, restOfJob>>

SellerRestarts(s) ==
  /\ faulty
  /\ crashes < MaxCrashes
  /\ crashes' = crashes + 1
  /\ quoted' = [quoted EXCEPT ![s] = Empty(Rounds)]
  /\ grants' = [grants EXCEPT ![s] = Empty(Rounds)]
  /\ pending' = [pending EXCEPT ![s] = Empty(Rounds)]
  /\ awarded' = [awarded EXCEPT ![s] = Empty(References)]
  /\ job' = [job EXCEPT ![s] = None]
  /\ inbox' \in {inbox, [inbox EXCEPT ![s] = <<>>]}
  /\ UNCHANGED <<buyerVars, escrowVars, valid, faulty, restarts, historyVars>>
-----------------------------------------------------------------------------
(***************************************************************************)
(* Time.                                                                   *)
(***************************************************************************)

\* An authorization expires, or its nonce is withdrawn from the target.
Lapse(i) ==
  /\ faulty
  /\ i \in valid
  /\ valid' = valid \ {i}
  /\ UNCHANGED <<buyerVars, sellerVars, inbox, escrowVars, faultVars, historyVars>>

\* A variant in which the buyer takes its money back at the deadline without
\* regard to the delivery.
RefundAtDeadline(k) ==
  /\ faulty
  /\ Settlement!Locked(k)
  /\ Settlement!Move(k, "returned")
  /\ UNCHANGED <<buyerVars, sellerVars, inbox, locked, valid, faultVars,
                 historyVars>>

\* The deadline of a deposit passes.  No agent acts on it: the buyer agent
\* never calls refund, nor the arbiter arbitrate_refund.
DeadlinePasses(k) ==
  /\ faulty
  /\ Settlement!Mature({k})
  /\ UNCHANGED <<buyerVars, sellerVars, inbox, locked, valid, faultVars,
                 historyVars>>

BuyerStep ==
  \/ Want \/ CollectBid \/ NoSellers \/ Award \/ Grant \/ ReceiveTerms \/ Deposit
  \/ Announce \/ ReceiveReport \/ Pay \/ Discard \/ RoundFails

SellerStep(s) == Read(s) \/ StartScan(s) \/ Deliver(s) \/ Abandon(s)

Environment ==
  \/ \E a \in Agents : Lose(a)
  \/ BuyerRestarts
  \/ \E s \in Sellers : SellerRestarts(s)
  \/ \E i \in Issues : Lapse(i)
  \/ \E k \in References : DeadlinePasses(k)

Next == BuyerStep \/ (\E s \in Sellers : SellerStep(s)) \/ Environment

Spec == Init /\ [][Next]_vars

\* Each process keeps running: its loop never stops, and every wait is bounded.
FairSpec ==
  /\ Spec
  /\ WF_vars(BuyerStep)
  /\ \A s \in Sellers : WF_vars(SellerStep(s))
-----------------------------------------------------------------------------
(***************************************************************************)
(* Properties.  Those about the right amount, the right report and the     *)
(* agreed reference hold while the buyer process lives; the same formulas  *)
(* are what its restart breaks.                                            *)
(***************************************************************************)
DealOf(k) == deal[k[1]]

\* The money of a deal moves only under consent: a deposit is made under the
\* reference of an authorization a seller has verified for that round, and it
\* names the wallet of the very seller the authorization was granted to.
DepositBacksConsent ==
  \A k \in References : order[k] # None =>
    /\ progress[k] # "none"
    /\ DealOf(k).round = k[2]
    /\ order[k].payee = WalletOf[DealOf(k).to]

\* A seller at work is working for money it will get: its deposit, no less
\* than its price, is locked for its wallet or has been paid already.
WorkIsFunded ==
  \A s \in Sellers : job[s] # None =>
    LET k == job[s].reference IN
    /\ order[k] # None
    /\ order[k].payee = WalletOf[s]
    /\ order[k].place # "returned"
    /\ locked[k] >= job[s].price

\* No deal is paid before its own report was delivered.
NoPayWithoutReport ==
  \A k \in References :
    order[k] # None /\ order[k].place = "paid" => progress[k] = "reported"

\* What the buyer locks is the price of the bid it picked, although the terms
\* that name the amount come from the seller and are not compared with it.
\* Both sides derive the reference of a deal independently and identically:
\* the buyer never meets terms of its round that name another reference.
PaysWhatWasBid ==
  /\ \A k \in References : order[k] # None => locked[k] = DealOf(k).price
  /\ pc = "terms" =>
       \A n \in DOMAIN inbox[Buyer] :
         LET m == inbox[Buyer][n] IN
         Matches(m) => m.reference = <<issue, round>>

\* One deposit for each authorization: an order that was paid is never opened
\* or paid again, whatever messages of old processes are still around.
PaidOnce ==
  [][\A k \in References :
       order[k] # None /\ order[k].place = "paid" => order'[k] = order[k]]_vars

\* One delivery for each deposit: work on a reference begins once, right after
\* its consent was verified, and never again after a crash or a late message.
WorkBeginsOnce ==
  [][\A s \in Sellers :
       job[s] = None /\ job'[s] # None =>
         progress[job'[s].reference] = "verified"]_vars

\* Every round ends, whatever gets lost, and the buyer can go to the next.
RoundsEnd == pc # "sleep" ~> pc = "sleep"

\* A seller that began a delivery is free for the next deal at last.
WorkEnds == \A s \in Sellers : job[s] # None ~> job[s] = None

\* Without faults a deal that was awarded ends with its seller being paid: the
\* agents never wait for each other in a circle.
AwardIsPaid ==
  \A i \in Issues :
    ~ faulty /\ deal[i] # None ~>
      \E r \in Rounds : order[<<i, r>>] # None /\ order[<<i, r>>].place = "paid"

\* What the documentation says of a seller that does not show up: the funds
\* stay in escrow and refund after the deadline.
MaturedDepositSettles ==
  \A k \in References :
    order[k] # None /\ order[k].place = "matured" ~>
      order[k] # None /\ order[k].place \in {"paid", "returned"}
=============================================================================
