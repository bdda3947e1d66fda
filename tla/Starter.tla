------------------------------- MODULE Starter -------------------------------
(***************************************************************************)
(* The starter market: coral-agents/buyer-agent and seller-agent, which    *)
(* the audit agents were forked from, and the feed that shows what they    *)
(* say.  Nothing but the round number ties most messages to a deal, and an *)
(* escrow reference is a hash of the terms alone, so a buyer that starts   *)
(* again from round one may meet its own old deposits and messages.        *)
(***************************************************************************)
EXTENDS Naturals, Sequences, SequencesExt, FiniteSets

CONSTANTS
  Sellers,      \* the names of the seller agents
  WalletOf,     \* SELLER_WALLET of each, one for all in the demo
  Floor,        \* FLOOR_SOL of each
  Budget,       \* BUYER_MAX_SOL
  Expected,     \* the buyer's SELLER_WALLET, Nobody when it is not set
  Arbitrated,   \* the sellers whose SETTLEMENT_MODE is arbiter
  MaxRound,     \* bound of the rounds of one buyer process
  MaxWants,     \* bound of the rounds of all of them together
  MaxFaults,    \* bound of the restarts, of the buyer and the sellers
  Nobody

Rounds == 1 .. MaxRound
Prices == 1 .. Budget

StarterAssumption ==
  /\ Nobody \notin Sellers
  /\ Floor \in [Sellers -> Nat \ {0}] /\ DOMAIN WalletOf = Sellers
  /\ {Budget, MaxRound, MaxWants, MaxFaults} \subseteq Nat
  /\ Arbitrated \subseteq Sellers

VARIABLES
  pc, round, bids, winner, terms, \* the buyer process
  quoted, awarded, job,           \* the seller processes
  mentions,                       \* what each agent has not read yet
  threads,                        \* the transcript, a thread for each buyer
  chain,                          \* escrow -> the amount locked, 0 for none
  restarts, crashes,
  deposits, works, releases       \* history: how often, for each escrow

buyerVars == <<pc, round, bids, winner, terms>>
sellerVars == <<quoted, awarded, job>>
history == <<deposits, works, releases>>
vars == <<buyerVars, sellerVars, mentions, threads, chain, restarts, crashes, history>>

Feed == INSTANCE Feed

\* boundReference: the hash of the round, the wallet and the price.  What is
\* asked for is the same in every round of a number.
boundReference(s, r, price) == <<r, WalletOf[s], price>>
References == Rounds \X Range(WalletOf) \X Prices

\* escrowPda and arbitratedEscrowPda: the account of the buyer and the one of a
\* vault are different ones, also for the same reference.
Escrows == BOOLEAN \X References
escrowPda(ref) == <<FALSE, ref>>
arbitratedEscrowPda(ref) == <<TRUE, ref>>
EscrowFor(s, ref) == IF s \in Arbitrated THEN arbitratedEscrowPda(ref) ELSE escrowPda(ref)

NoTerms == [by |-> Nobody, ref |-> <<>>, price |-> 0]
NoJob == [ref |-> <<>>, round |-> 0]
NoBids == [s \in {} |-> 0]

\* The buyer is the agent Nobody of `mentions`.
Agents == Sellers \cup {Nobody}
MyThread == Len(threads)

Init ==
  /\ pc = "start" /\ round = 0 /\ bids = NoBids /\ winner = Nobody /\ terms = NoTerms
  /\ quoted = [s \in Sellers |-> [r \in Rounds |-> 0]]
  /\ awarded = [s \in Sellers |-> {}]
  /\ job = [s \in Sellers |-> NoJob]
  /\ mentions = [a \in Agents |-> <<>>]
  /\ threads = <<<<>>>>
  /\ chain = [e \in Escrows |-> 0]
  /\ restarts = 0 /\ crashes = 0
  /\ deposits = chain /\ works = chain /\ releases = chain
-------------------------------------------------------------------------------
(***************************************************************************)
(* Coral.  An agent reads the message it was mentioned in first; what it   *)
(* sends goes to those it mentions and into the transcript.                *)
(***************************************************************************)
Heard(a) == Head(mentions[a]).m
Waiting(a) == mentions[a] # <<>>

Deliver(m, to, thread, readers) ==
  /\ threads' = [threads EXCEPT ![thread] = Append(@, m)]
  /\ mentions' = [a \in Agents |->
       LET unread == IF a \in readers THEN Tail(mentions[a]) ELSE mentions[a]
       IN  IF a \in to THEN Append(unread, [m |-> m, thread |-> thread]) ELSE unread]

Send(m, to) == Deliver(m, to, MyThread, {})
Reply(s, m) == Deliver(m, {Nobody}, Head(mentions[s]).thread, {s})
Discard(a) == mentions' = [mentions EXCEPT ![a] = Tail(@)] /\ UNCHANGED threads

\* No agent parses an ERROR and the feed does not show it, so none is kept.
ReplyError(s) == Discard(s)
-------------------------------------------------------------------------------
(***************************************************************************)
(* The buyer.  Its clock runs out at any time.                             *)
(***************************************************************************)
OtherThanBuyer == <<sellerVars, restarts, crashes, works>>
NothingPaid == UNCHANGED <<chain, deposits, releases>>

Wants == {x \in UNION {{t} \X DOMAIN threads[t] : t \in DOMAIN threads} :
            threads[x[1]][x[2]].verb = "WANT"}

\* What a round leaves behind: its variables go out of scope.
EndRound == pc' = "start" /\ bids' = NoBids /\ winner' = Nobody /\ terms' = NoTerms

Want ==
  /\ pc = "start" /\ round < MaxRound /\ Cardinality(Wants) < MaxWants
  /\ pc' = "bids" /\ round' = round + 1
  /\ Send([verb |-> "WANT", round |-> round'], Sellers)
  /\ NothingPaid /\ UNCHANGED <<bids, winner, terms, OtherThanBuyer>>

\* selectBids: the last bid of a seller counts.
selectBids(m) == [s \in DOMAIN bids \cup {m.by} |-> IF s = m.by THEN m.price ELSE bids[s]]

CollectBid ==
  /\ pc = "bids" /\ Waiting(Nobody) /\ Discard(Nobody)
  /\ LET m == Heard(Nobody)
     IN  bids' = IF m.verb = "BID" /\ m.round = round THEN selectBids(m) ELSE bids
  /\ NothingPaid /\ UNCHANGED <<pc, round, winner, terms, OtherThanBuyer>>

\* pickWinner: the model's choice, or the cheapest.
AwardWinner ==
  /\ pc = "bids"
  /\ \E s \in DOMAIN bids :
       /\ winner' = s
       /\ Send([verb |-> "AWARD", round |-> round, to |-> s], {s})
  /\ pc' = "terms"
  /\ NothingPaid /\ UNCHANGED <<round, bids, terms, OtherThanBuyer>>

\* No bids, nothing heard in time, or an error caught by the loop.
NextRound ==
  /\ pc # "start" /\ EndRound
  /\ NothingPaid /\ UNCHANGED <<round, mentions, threads, OtherThanBuyer>>

payoutMatches(wallet) == Expected = Nobody \/ wallet = Expected

ReceiveTerms ==
  /\ pc = "terms" /\ Waiting(Nobody) /\ Discard(Nobody)
  /\ LET m == Heard(Nobody) IN
     IF m.verb = "ESCROW_REQUIRED" /\ m.round = round
     THEN IF payoutMatches(WalletOf[m.by])
          THEN /\ terms' = [by |-> m.by, ref |-> m.ref, price |-> m.price]
               /\ pc' = "deposit" /\ UNCHANGED <<bids, winner>>
          ELSE EndRound
     ELSE UNCHANGED <<pc, bids, winner, terms>>
  /\ NothingPaid /\ UNCHANGED <<round, OtherThanBuyer>>

\* The program refuses an account that is in use.
Lock(escrow) ==
  /\ chain[escrow] = 0
  /\ chain' = [chain EXCEPT ![escrow] = terms.price]
  /\ deposits' = [deposits EXCEPT ![escrow] = @ + 1]

Unlock(escrow) ==
  /\ chain[escrow] > 0
  /\ chain' = [chain EXCEPT ![escrow] = 0]
  /\ releases' = [releases EXCEPT ![escrow] = @ + 1]

\* As the terms ask for it: by the buyer itself, or through a vault.
deposit == terms.by \notin Arbitrated /\ Lock(escrowPda(terms.ref))
openArbitrated == terms.by \in Arbitrated /\ Lock(arbitratedEscrowPda(terms.ref))
release == terms.by \notin Arbitrated /\ Unlock(escrowPda(terms.ref))
arbitrateRelease == terms.by \in Arbitrated /\ Unlock(arbitratedEscrowPda(terms.ref))

\* DEPOSITED says how it was paid, so the escrow it names is the one of the terms.
Announce(verb, to) ==
  Send([verb |-> verb, round |-> round, escrow |-> EscrowFor(terms.by, terms.ref)], {to})

\* A variant that takes an account that exists for its own deposit.
DepositIdempotent ==
  /\ pc = "deposit"
  /\ \/ deposit \/ openArbitrated
     \/ chain[EscrowFor(terms.by, terms.ref)] > 0 /\ UNCHANGED <<chain, deposits>>
  /\ Announce("DEPOSITED", winner) /\ pc' = "delivery"
  /\ UNCHANGED <<round, bids, winner, terms, releases, OtherThanBuyer>>

\* The buyer may not learn that it succeeded.
Deposit ==
  /\ pc = "deposit" /\ (deposit \/ openArbitrated)
  /\ \/ Announce("DEPOSITED", winner) /\ pc' = "delivery" /\ UNCHANGED <<bids, winner, terms>>
     \/ UNCHANGED <<mentions, threads>> /\ EndRound
  /\ UNCHANGED <<round, releases, OtherThanBuyer>>

\* A variant that does not look at the round of a delivery.
AwaitAnyDelivery ==
  /\ pc = "delivery" /\ Waiting(Nobody) /\ Discard(Nobody)
  /\ pc' = IF Heard(Nobody).verb = "DELIVERED" THEN "release" ELSE pc
  /\ NothingPaid /\ UNCHANGED <<round, bids, winner, terms, OtherThanBuyer>>

AwaitDelivery ==
  /\ pc = "delivery" /\ Waiting(Nobody) /\ Discard(Nobody)
  /\ pc' = IF Heard(Nobody).verb = "DELIVERED" /\ Heard(Nobody).round = round
           THEN "release" ELSE pc
  /\ NothingPaid /\ UNCHANGED <<round, bids, winner, terms, OtherThanBuyer>>

\* The wallet of the terms is paid.
ReleaseFunds ==
  /\ pc = "release" /\ (release \/ arbitrateRelease)
  /\ \/ Announce(IF terms.by \in Arbitrated THEN "ARBITER_RELEASED" ELSE "RELEASED", winner)
     \/ UNCHANGED <<mentions, threads>>
  /\ EndRound
  /\ UNCHANGED <<round, deposits, OtherThanBuyer>>

\* A new process counts from one again, in a new thread.
BuyerRestarts ==
  /\ restarts + crashes < MaxFaults /\ restarts' = restarts + 1
  /\ EndRound /\ round' = 0
  /\ mentions' \in {mentions, [mentions EXCEPT ![Nobody] = <<>>]}
  /\ threads' = Append(threads, <<>>)
  /\ UNCHANGED <<sellerVars, chain, crashes, history>>
-------------------------------------------------------------------------------
(***************************************************************************)
(* A seller, which handles one mention at a time.                          *)
(***************************************************************************)
Hears(s, verb) == job[s] = NoJob /\ Waiting(s) /\ Heard(s).verb = verb
OtherThanSeller == <<buyerVars, chain, restarts, crashes, deposits, releases>>

\* A proposed price is clamped to the floor and the budget.
decideBid(s) == {p \in Prices : p >= Floor[s]}

Bid(s) ==
  /\ Hears(s, "WANT")
  /\ \/ Discard(s) /\ UNCHANGED quoted
     \/ \E p \in decideBid(s) :
          /\ quoted' = [quoted EXCEPT ![s][Heard(s).round] = p]
          /\ Reply(s, [verb |-> "BID", round |-> Heard(s).round, by |-> s, price |-> p])
  /\ UNCHANGED <<awarded, job, works, OtherThanSeller>>

\* Without a quote for the round the award is ignored.
Quote(s) ==
  /\ Hears(s, "AWARD")
  /\ LET r     == Heard(s).round
         price == quoted[s][r]
         ref   == boundReference(s, r, price)
     IN  IF price = 0 THEN Discard(s) /\ UNCHANGED <<quoted, awarded>>
         ELSE /\ awarded' = [awarded EXCEPT ![s] = @ \cup {ref}]
              /\ quoted' = [quoted EXCEPT ![s][r] = 0]
              /\ Reply(s, [verb |-> "ESCROW_REQUIRED", round |-> r, by |-> s, ref |-> ref,
                           price |-> price])
  /\ UNCHANGED <<job, works, OtherThanSeller>>

priceSol(ref) == ref[3]

\* isFunded: the account that the message names, the buyer's or the vault's,
\* is for this wallet and holds the price of the order.
isFunded(s, escrow) == escrow[2][2] = WalletOf[s] /\ chain[escrow] >= priceSol(escrow[2])

\* No such order, nothing locked for it, or the chain cannot be read: the order
\* stays.
RefuseDeposit(s) ==
  /\ Hears(s, "DEPOSITED")
  /\ ReplyError(s)
  /\ UNCHANGED <<sellerVars, works, OtherThanSeller>>

Work(s) ==
  LET escrow == Heard(s).escrow
      ref    == escrow[2]
  IN
  /\ Hears(s, "DEPOSITED") /\ ref \in awarded[s] /\ isFunded(s, escrow)
  /\ awarded' = [awarded EXCEPT ![s] = @ \ {ref}]
  /\ job' = [job EXCEPT ![s] = [ref |-> ref, round |-> Heard(s).round]]
  /\ works' = [works EXCEPT ![escrow] = @ + 1]
  /\ UNCHANGED <<quoted, mentions, threads, OtherThanSeller>>

\* The read, or the error it ended with: the order is gone either way.
Delivered(s) ==
  /\ job[s] # NoJob /\ job' = [job EXCEPT ![s] = NoJob]
  /\ \/ Reply(s, [verb |-> "DELIVERED", round |-> job[s].round])
     \/ ReplyError(s)
  /\ UNCHANGED <<quoted, awarded, works, OtherThanSeller>>

IgnoreMention(s) ==
  /\ job[s] = NoJob /\ Waiting(s)
  /\ Heard(s).verb \notin {"WANT", "AWARD", "DEPOSITED"}
  /\ Discard(s) /\ UNCHANGED <<sellerVars, works, OtherThanSeller>>

SellerRestarts(s) ==
  /\ restarts + crashes < MaxFaults /\ crashes' = crashes + 1
  /\ quoted' = [quoted EXCEPT ![s] = [r \in Rounds |-> 0]]
  /\ awarded' = [awarded EXCEPT ![s] = {}]
  /\ job' = [job EXCEPT ![s] = NoJob]
  /\ mentions' \in {IF job[s] = NoJob THEN mentions ELSE [mentions EXCEPT ![s] = Tail(@)],
                    [mentions EXCEPT ![s] = <<>>]}
  /\ UNCHANGED <<buyerVars, threads, chain, restarts, history>>
-------------------------------------------------------------------------------
Buyer == \/ Want \/ CollectBid \/ AwardWinner \/ NextRound \/ ReceiveTerms
         \/ Deposit \/ AwaitDelivery \/ ReleaseFunds \/ BuyerRestarts

SellerStep(s) == \/ Bid(s) \/ Quote(s) \/ RefuseDeposit(s) \/ Work(s) \/ Delivered(s)
                 \/ IgnoreMention(s) \/ SellerRestarts(s)

Next == Buyer \/ \E s \in Sellers : SellerStep(s)

Spec == Init /\ [][Next]_vars
-------------------------------------------------------------------------------
\* A seller that worked was paid or its money is still locked: nobody gets two
\* reads for one deposit, also when a restarted buyer meets the references of
\* its former rounds (seller-agent/src/index.ts:36, 88-105).
WorkIsBacked ==
  \A e \in Escrows : works[e] <= releases[e] + (IF chain[e] > 0 THEN 1 ELSE 0)

\* Until the buyer restarts it locks the price of the bid it chose, for the
\* wallet of the bidder, and pays only for work that was begun, although only
\* the round number ties terms and delivery to the award
\* (buyer-agent/src/index.ts:75-89, 131-189).
PaysTheBidForTheWork ==
  restarts = 0 =>
    /\ pc \in {"deposit", "delivery", "release"} =>
         terms.by = winner /\ terms.price = bids[winner]
    /\ \A e \in Escrows : releases[e] <= works[e]

Said(verb, r) == \E t \in DOMAIN threads : \E i \in DOMAIN threads[t] :
                   threads[t][i].verb = verb /\ threads[t][i].round = r

Paid(r) == \E e \in Escrows : e[2][1] = r /\ releases[e] > 0

\* What the dashboard shows of a round: settled exactly when RELEASED was said
\* of it, and then it was paid, whatever the buyer's restarts replay; and until
\* a restart, at the price and to the seller it shows (feed/src/foldRounds.ts).
FeedShowsThePaid ==
  LET shown == Feed!foldRounds(Feed!collectMessages(threads)) IN
  \A r \in Rounds :
    /\ shown[r].status = "settled" <=> Said("RELEASED", r)
    /\ shown[r].status = "settled" => Paid(r)
    /\ shown[r].status = "settled" /\ restarts = 0 =>
         \E s \in Sellers : /\ shown[r].award = s
                            /\ shown[r].amount = shown[r].bids[s]
                            /\ releases[EscrowFor(s, boundReference(s, r, shown[r].bids[s]))] = 1
===============================================================================
