# Verification of the audit market and its settlement

This directory is a TLA+ development kept beside the repository. It models how
the parts that move money, consent and reports work together: the on-chain
escrow program and its arbiter, the agents of the audit market that settle
through them, the service that delivers what was paid for, the pricing, consent
and reports around a deal with the demo and the dashboard that show it, and what
the project grew out of: the starter market, pay-per-request over HTTP 402, and
the World Cup Oracle. TLC checks the models on small instances; TLAPS proves the
main results for every value of the constants.

Contents

1. The system
2. The modules and how they correspond to the code
3. The runs: bounds, and what they show
4. Fairness and faults
5. The proofs
6. What is only model-checked, and what is not modelled
7. Where code and documentation disagree
8. How the development is laid out, and what could follow

## 1. The system

An *audit market* runs on Coral, a message server for agents. A **buyer** agent
asks for an audit (`WANT`), **seller** agents bid, the buyer awards one, sends
it a signed authorization (`AUTHZ_GRANT`), receives the terms of an escrow
(`ESCROW_REQUIRED`), locks the price on chain, announces it (`DEPOSITED`), waits
for the report (`DELIVERED`), evaluates it and releases the money. The seller
verifies the authorization, checks the escrow is funded, and runs the audit.

| Component (source) | State it keeps | Operations | Talks to | What is hard | What makes it correct |
| --- | --- | --- | --- | --- | --- |
| Escrow program (`examples/txodds/escrow/programs/escrow`) | one account per (buyer, reference) with seller, amount, deadline | `initialize`, `release`, `refund` | the ledger; called by wallets and by the arbiter program | an address is reused after its account is closed; release and refund compete at the deadline; lamports are moved by hand | a deposit leaves whole, once, to the named seller or, after the deadline, to the buyer; no lamport is created |
| Arbiter program (`programs/arbiter`) | the config account (who is the arbiter); a vault per reference | `init_config`, `open`, `arbitrate_release`, `arbitrate_refund` | the escrow program, by CPI | an instruction is several transfers; rents pile up in a vault; the caller names the account a refund goes to | only the arbiter settles; a vault loses only to the refund of its own order; a settled deposit leaves whole |
| Buyer agent (`coral-agents/audit-buyer`) | the round, bids, winner, authorization, terms – all in memory | one procurement round after another | sellers through Coral, both programs, the verifier | messages of old rounds; every wait times out; a restart counts rounds from 1 again | pays only for the deal's own report, the price that was bid |
| Seller agent (`coral-agents/audit-seller`) | `quoted`, `grants`, `pendingAward`, `awarded` – all in memory | a loop over mentions | the buyer, the escrow (reads), the delivery | AWARD and AUTHZ_GRANT in either order; a restart forgets deals | works only for a locked deposit and under verified consent; never twice |
| Wire protocol (`agent-runtime/src/market`, `shared/src/protocol.ts`) | – | format, parse | – | only the round number ties most messages to a deal | – |
| Coral client (`agent-runtime/src/coral`) | the agent's unread mentions | wait, send, reply | Coral server | a response with several messages yields only the first; sends fail | – |
| Authorization (`packages/authorization`) | – (documents); the nonce published at the target | issue, sign, encode, verify, derive a reference | the target's `/.well-known` or DNS | consent that lapses, or whose nonce is replaced, between award and scan | the engine works only within what was signed, in its time, under a live nonce |
| Audit delivery (`packages/audit-service`) | where one audit is; the Strix child and its run directories; the report to replay | `runAudit`, `runStrix`, parse, build a report | the thread, the broker, Strix | a timed-out process closes later; several runs share a directory; calls that fail | an audit ends; no findings of a killed run; findings come from the right scan; the report adds up |
| Scan broker (`scripts/scan-broker.mjs`) | `busy` | `POST /scan` | Strix on the host | `busy` is tested on arrival and set after the body was read; callers that give up | the broker is freed; it is busy only while it scans |
| Pricing and scope (`shared/src/cost.ts`, `scope.ts`, seller `bidder.ts`) | – | pure | seller agent | rounding after flooring and capping; codes lost in the text of a WANT | no bid at a loss or outside the persona's lane |
| Feed (`examples/marketplace/feed`) | the session it is pinned to | fold a transcript into rounds; start a session | dashboard, Coral | events out of order; two buyer processes in one transcript | a round shown as settled was paid |
| Dashboard (`examples/marketplace/web`) | the session, the pinned round, the rounds it shows | poll, pick, start | the feed | a poll does not wait for the one before it | the views agree; the tab follows its session |
| Demo and launchers (`scripts/demo.mjs`, `marketplace/start*.ts`) | `.env`, the token at the target, processes | one sequence of steps | everything it starts | any step may fail, some silently; the leftovers of an earlier run | "live" means one market whose consent can be verified |
| Starter market (`coral-agents/buyer-agent`, `seller-agent`) | maps like those of the audit agents | the loop the audit agents come from | Coral, both programs | references are hashes of the terms, so a restarted buyer meets old ones | work is paid for or its money still locked |
| Pay-per-request (`quickstart`, the buyer agent's `llm_buyer.ts`) | outstanding references; what a buyer spent | HTTP handlers; the tool calls of a model | the ledger | look up, await, act: two proofs of one payment; a transfer whose answer is lost | served is paid; a guarded buyer stays in its budget |
| Swarm broker (`coral-agents/broker`) | one request at a time | quote, buy, resell | sellers, buyers, the ledger | late answers in other threads; a quote names two amounts; rounding of the markup | what it sells it bought, and is paid the markup on the price that was named |
| Bridge (`agent-economy/bridge`, `web`) | the session promise, the orders, the started sessions | HTTP handlers, checkout | Coral, the ledger | a memoised promise; two starts of one session | a paid order stays known |
| World Cup Oracle (`examples/txodds`) | API token, cached board; the browser's selection | HTTP handlers that read odds and settle | the TxODDS feed, both programs | stale answers after a selection; a fallback after half a settlement | what is shown and settled is what is selected, with its own numbers |

An LLM is the nondeterminism of bids, awards and tool calls. The two example
agents (`echo-agent`, `user-proxy`) keep no protocol state.

The interactions that matter: the buyer and the sellers share nothing but
messages and the escrow; the escrow reference, a hash of the authorization's
hash and the round, is computed by both and is the only name of a deal that no
other deal shares; both programs change the same ledger; the sellers share one
broker, and the runs of one host share `strix_runs`.

`PROJECT.json` lists under `hazards` every place where this goes wrong in a way
a test would hardly reach, with the properties that would show it.

## 2. The modules and how they correspond to the code

```
Settlement         abstract: one order, paid or returned once
   ^ refined by        ^ used by (INSTANCE)
Escrow <- Arbiter   Market               Delivery        FairLine
   |         |         |                    |               |
   |         |         |                    |            WorldCup
EscrowProofs |    MarketProofs        DeliveryProofs        |
       ArbiterProofs                                  WorldCupProofs

Quickstart  Broker  Bridge  Starter -> Feed      Scope <- Pricing, Consent   Report   Demo -> Dashboard -> Feed
     \         \      /      /                             \        \         /        /
              StarterKit                                             Support
                  |                                                     |
           StarterKitProofs                                       SupportProofs

Filter (`filter` of a sequence), used by Scope, Report and FoldLemmas
FoldLemmas (induction, sums, sequences, filters), used by EscrowProofs, StarterKitProofs and SupportProofs
```

Every run has an `MC` module of the same name that gives the constants values.
`StarterKit` and `Support` each put four components side by side which share no
state: the initial choice of `side` says which of them a behaviour is about.

### The market and its settlement

**Settlement** is what any settlement path promises about an order: opened,
locked, matured at its deadline, then paid or returned, and returned only when
it has matured. It knows nothing of lamports, vaults or signers.

**Escrow** (`programs/escrow/src/lib.rs`). `escrow` is the account at each
address (buyer, reference), `lamports` the one ledger of all keys, the addresses
of escrows included (`Holders`), `now` the cluster clock. The seller is an
unchecked account in the program and so any key here: a wallet, a vault, another
escrow's address or its own. An instruction is atomic and fails as a whole, so a
failing instruction is no step. Each handler is split into its check (`Can...`)
and its effect on the ledger (`Initialized`, `Released`, `Refunded`), all by
`Transfer`, because the arbiter applies the same handlers in its own instruction.
`init` adds what the address lacks to be exempt from rent (`Topup`), since it may
have been sent lamports before. Release moves the amount by
`checked_sub`/`checked_add` and then closes the account to the buyer; both are
in `Release`. `closed` is a history variable: whom the last account at an
address named, and where its money went.

**Arbiter** (`programs/arbiter/src/lib.rs`) extends Escrow. `Open` is the whole
instruction: the payer's transfer of amount and rent to the vault, then
`initialize` signed by the vault. `ArbitrateRefund` is the CPI refund and the
sweep of the vault to whichever account the arbiter passes: the program takes it
unchecked (lib.rs:214-216), so it may be another vault or the vault itself, and
the seller may be a vault as well. Wallets can also call the escrow program
directly (`DirectInstruction`), as in the market's direct mode, so both programs
run side by side. `signer` and `payerOf` (who paid for the open order of a
reference) are history.

**Market** composes the audit buyer (`audit-buyer/src/index.ts`), the audit
sellers (`audit-seller/src/index.ts`), the Coral inboxes and a Settlement
instance. `pc` is the place in the buyer's loop and so which message it waits
for (`Awaited`, `Matches`); a message that does not match is dropped, as
`waitFor` does (`Discard`). `quoted`, `grants`, `pending`, `awarded` are the
seller's four maps under the names of the code (`pendingAward` is `pending`);
`proceedIfReady` is one operator, used by both handlers that call it. The
buyer's evaluation of a report (`evaluateReport`) is `Payable`. Messages are
records; the text encoding is abstracted. An authorization is a number,
`deal[i]` remembers what it was issued for, `valid` says which would pass the
verifier now. A reference is the pair (authorization, round), as good as its
hash.

**Delivery** models `runAudit` (`audit-service/src/deliver.ts`), `runStrix`
(`strix.ts`) and the scan broker. `at` is where an audit is, `request` how far
the broker is with it, `child` the Strix process, `dirs` the run directories of
each host with `before` what a run saw when it started, `written` the one that was
written last. `RunDirs` is the choice a closing run makes: of the new directories
the newest by name, or else of all the newest by mtime, which a run that goes on
writing into an older one changes (`WriteRunDir`). `Close` keeps the first answer,
as `done` does. Of the progress events only that their
calls fail is modelled: an awaited one throws (`EmitFails`), one that is not
awaited is an unhandled rejection and ends the process (`SellerDies`).

### What surrounds a deal

**Scope** (`shared/src/scope.ts`) is the round trip of a list of test categories
through the argument of a WANT, the schema and the policy. Encoding orders the
codes and falls back to the security headers; decoding drops what it does not
know, so a list of unknown codes decodes to nothing. Both are filters (**Filter**,
a recursive function in the place of `SelectSeq`, so that it can be reasoned about).

**Pricing** (`shared/src/cost.ts`, `audit-seller/src/bidder.ts`) computes a bid
in grains of 10⁻⁵ SOL: `estimateScanCost`, margin, floor, cap, and then the
rounding to four decimals (`round4`), for which ten grains make a unit. The
intermediate ratios are scaled to integers and rounded down to a grain.
`willing` is the answer of the LLM, which may decline and never names the price.

**Consent** (`packages/authorization`, with its callers in the audit agents and
in `runAudit`) follows one grant: what the buyer is configured with, the WANT's
argument, the signed token, what arrives of it (intact, unreadable, or with one
field changed), the check when the award is in and again before the engine
starts, and the rules of engagement. `published` is the nonce at the target,
which an operator or the next demo may replace at any time; `clock` may pass the
end of the grant. A hash is an injective tag, a signature a pair of key and
payload. `NextRound` starts over with the same configuration.

**Report** (`parser.ts`, `report.ts`, `prebaked.ts`) turns what an engine left
into a report: the search for the array, the coercion of each entry, new AM
numbers, the stable sort by severity, the summary. `RefreshPrebaked` is how a
live scan becomes what later deals replay; `ReportPanel` is the sort and the
chips of the dashboard, which must agree with the summary.

**Feed** (`marketplace/feed/src/foldRounds.ts`) is the fold of a transcript into
rounds, message by message; `collectMessages` takes threads one after another
and so not in the order of time. A refund is remembered (`refunded`) whatever
status a later message sets. It is used by Starter over the transcripts its
agents write, and by Dashboard over the scripts of the audit market.

**Dashboard** (`feed/src/server.ts`, `marketplace/web`) is a tab: it binds to the
session the feed serves, polls it every second without waiting for the answer
before (`polls`, a bounded set of requests under way that are answered in any
order), pins a round, starts a session. `Transcript` is what a session's agents
have said after some of their parts, and `rounds` what the feed folds of it; the
views (`phaseLabel`, `reachedIdx`, `terminal`, `totalSettled`, `winning`,
`railPrice`) are operators on these rounds. What agents may say is
`ScriptAssumption`: an award is of a bid that was made, and the terms are at a price
that the awarded seller bid, as the loops of buyer and seller have it. A round is
`PlayedOnce` unless a restarted buyer counted from one again.

**Demo** (`scripts/demo.mjs`, `start-audit.ts`) extends Dashboard with the script
that starts everything: preflight, token, stack, restart of Coral, launch, feed.
Each step may fail and the operator may stop between two; a second run finds
what the first has left. Two failures are passed over by the script, and so here:
a restart of Coral, which then keeps its sessions, and a feed that does not start.

### Where it comes from

**Starter** (`buyer-agent/src/index.ts`, `seller-agent/src/index.ts`) is the
market the audit agents were forked from. It differs from Market where the code
does: no consent; a reference is `<<round, wallet, price>>`, the hash of the
terms alone; the escrow of a vault and of a wallet are different accounts; what
is delivered is not evaluated. A seller looks at the escrow that DEPOSITED names,
whatever settlement it asked for itself, and answers with an ERROR nobody reads
when it is not funded. Threads are kept for the feed.

**Quickstart** (`agent-economy/quickstart`) is the 402 server and its buyers:
`buyer.ts`, which looks at each payment alone, and `LLMBuyerStrategy`, whose
`guardPayment` sums them (`guarded`). The handler is split at its awaits, so a
proof that was let in before the reference was forgotten is modelled. The ledger
is the set of transfers.

**Broker** (`coral-agents/broker`) is one loop with waits in threads; `due` is
what sellers owe, delivered whenever they like, also after the wait is over. A
quote is two figures of the seller's choice: `price`, which its text names and by
which the broker compares and charges, and `url`, the amount in the payment URL,
which it limits and pays. `Resale` is `toFixed(6)` on the markup.

**Bridge** (`agent-economy/bridge/server.ts`, `useCheckout.ts`) splits each route
at its awaits. `session` is the memoised promise, `orders` the map, `running`
the two fronts that are started once; `overlap` is history.

**FairLine** and **WorldCup** (`examples/txodds`). FairLine is the pure reading
of an odds snapshot, in the four places that compute it; a row may lack prices or
the names of its outcomes (`named`). WorldCup is the proxy
with each request a coroutine split at its awaits, which share the token and the
cached board, and the browser with one effect per selection. The fallback of a
failed arbitrated settlement to a direct one is `Throw`. A read that the browser
computes itself (`clientEdge`) has the label it is shown with (`by`) and whether
its numbers are the sample board's (`sample`), which the code decides apart.

### Variants

In each module the operators named as a *variant* or a *slip* in their comment
(for instance `CloseUnsettled`) are what a plausible bug would make of the
operator that follows; they are used by no specification and serve to show that
each property can fail.

## 3. The runs: bounds, and what they show

| Run | Instance | States | What it shows |
| --- | --- | --- | --- |
| `arbiter` | 2 wallets, 2 references with their vaults; sellers are a wallet, a vault and an escrow of that vault; amounts 0–2, deadlines and clock 0–1, rent 1, supply 4 | 226,425 | direct and arbitrated orders side by side: lamports conserved over all keys and so no release that overflows; deposits leave whole; only the arbiter settles its orders; a vault loses only to the refund of its own; refinement of Settlement |
| `market` | 2 sellers (one arbitrated, one whose price changes), 2 rounds, 2 authorizations, reordering, all faults | 2,329,357 | types, funded work, no pay without report, the price that was bid under the reference both derive |
| `market_restart` | 1 round per process, one restart of the buyer and one of a seller, one accepted payout wallet | 963,468 | consent backs each deposit; paid once, delivered once |
| `market_fair` | 2 rounds, fixed prices, with and without faults | 219,707 | rounds and deliveries end; without faults an award is paid |
| `market_report` | 1 round per process, one restart | violation | a late report pays a deal of the new process |
| `market_refund` | 1 round, fair agents | violation | nobody asks for the refund of a matured deposit |
| `delivery` | 2 sellers, each of any report source, 2 deals | 226,337 | every audit ends, the broker is freed, no findings of a killed run, whose findings a report may have |
| `delivery_findings` | the broker only | violation | findings of another deal's scan |
| `worldcup` | 2 fixtures (one whose 1X2 row may be unpriced or without names), 2 requests at a time, arbiter configured | 5,325,271 | shown and settled is what is selected; an ok settlement was paid; a payment follows its read |
| `starter_kit` | one of: a buyer of either kind and a stray client with 2 references and 4 turns; 2 sellers of 3 quotes, 2 asks in 2 threads; 2 tabs, 2 orders, 2 sessions and restarts; a market of 2 sellers with one wallet, 2 rounds, 2 WANTs, 1 restart | 4,733,537 | served is paid, budgets hold, a resale pays the markup, paid orders are kept, starter work is backed, the feed shows what was paid |
| `support` | one of: 4 personas × 4 lists × 4 budgets × 3 sites; 2 targets, 3 scopes, depths 2 and 6, 2 nonces, 3 instants; outputs of up to 2 of 5 odd entries; 2 runs of the demo in 3 environments, 2 polls under way | 571,259 | no bid at a loss, the engine keeps to the grant, reports add up, the demo's "live" is true, the views agree, the tab catches up |
| `support_budget` | the same | violation | a bid above the buyer's budget |

Why the bounds are enough. *Arbiter* (the escrow program is in it): a payer, a
seller and the account a refund is swept to may coincide in every way, since the
latter ranges over every key and a seller may be a wallet, a vault or an escrow of
that vault, its own address included; two vaults are what it takes for another
order's to be hit; either wallet may be payer and arbiter. Amounts include zero,
the supply is enough for two orders open at a time and is the largest u64 of the
instance, so an addition that overflows would be seen. Addresses are reused
without bound, with other sellers and amounts, and rents pile up in the vaults. A
deadline may be past or ahead; that an order is opened again after its deadline
had it refunded is left to the proofs, which have no bound. *Market*: two rounds are what it takes
for messages, quotes and terms of one round to meet the next; two sellers are
what it takes for a loser; one restart per agent is what it takes for old state
to meet new. `MaxIssue` is one authorization per round and process, so it never
stops a round (this is an assumption of the module and so evaluated). The runs
split what together would be too large: reordering with two rounds, restarts
with one. *Delivery*: two deals are what it takes for two scans to overlap or
follow each other on one host, by one seller or two. *World Cup*: two fixtures
are a selection and another; the row of one favours a side, is unpriced or has no
names, each before another row that is priced, which is what the choices of a row
tell apart; two slots let a request of an old selection overlap
one of the new, and two requests activate at once. The slots are alike, so the
run uses their symmetry; it checks no liveness. *Starter kit*: two references,
requests, tabs or orders are what it takes for one to be taken for the other; a
budget of two prices lets a buyer pay twice and then too much; two sellers with
one wallet, as the personas of the demo have, let their references coincide; one
restart lets a buyer meet its own escrows. The broker's quotes are one whose
markup the rounding takes away, one that asks for more than it names, and one over
the broker's limit.
*Support*: the personas are those of the manifests and one of misspelt settings;
budgets lie on both sides of floors and of a rounding step; depth 6 is one more
than the schema allows; a clock of three instants is before, at and past the end
of a grant; the scripts hold a round that is settled once, whose price and sum can
then differ, a restarted buyer that plays a settled round again, up to a refund
before a late delivery in one of them, and a rejected consent.

Bounds in guards: `LastTime` (the clock), `MaxRound`, `MaxIssue`, `MaxRestarts`,
`MaxCrashes`, `MaxAudits`; `MaxTurns`, `MaxRefs`, `MaxAsks`, `MaxThreads`,
`MaxSessions` (also of the bridge's restarts), `MaxWants`, `MaxFaults`;
`MaxClock`, `MaxClicks`, `MaxRuns`, the length of `Script`, and `Slots` in
WorldCup and Dashboard. In Broker a bluff is sent only to an empty inbox, which
keeps the inbox finite. Nothing else is cut off. Deadlock checking is off
in every run since all the models may stop at these bounds, or, on chain, when
nobody asks for anything more.

## 4. Fairness and faults

Safety is checked without fairness, except in `support`, where it excludes no
reachable state. `Market!FairSpec` has weak fairness of the
buyer's step and of each seller's step: both loops are `while (true)` with
bounded waits, so a process that can take a step takes one. Nothing is assumed
of the environment: no message need arrive. `Delivery!FairSpec` has weak
fairness of the seller's steps, the broker's steps and the timer of a Strix run
(`setTimeout` fires, whatever the child does). It assumes neither that a process
closes nor that a call without an answer is given up. `DashboardFairness` has
weak fairness of the tab's opening, its binding, each poll, and its answer: the
tab runs a timer (`api.ts`, `setInterval`), the feed's handler always responds,
with an error if need be, and a fetch settles. It assumes nothing of the demo,
of Coral or of the agents; `CatchesUp` is therefore conditional on a session that
stays live and a feed that stays up.

Faults and where they come from. *Market*: an agent dies and is respawned with
its memory empty (README.md: "coral respawns killed agents"); messages are lost
when a response has several of them (`mcp.ts`, `parseMention`) or a send fails;
mentions are read in any order (`audit-seller/src/index.ts`: the grant "may
arrive before or after AWARD"); waits time out; consent lapses; deadlines pass; a
release transaction fails. All of them are switched by `faulty`, chosen
initially: `AwardIsPaid` is about the behaviours without them, all else about
both. *Consent*: the nonce is replaced or unreadable, time passes, the token
arrives changed. *Starter kit*: a transfer lands and its answer is lost; servers,
bridge, broker and agents restart; sellers answer late, wrongly or never. *World
Cup*: every call of the feed and every transaction may fail, or land and throw;
the proxy restarts; answers arrive for selections that are over. *Demo*: any
step fails, the restart of Coral and the start of the feed fail and are passed
over, polls overtake each other.

## 5. The proofs

All proofs are for arbitrary constants that satisfy the modules' `ASSUME`s:
any accounts, references, amounts, deadlines and rent (`EscrowAssumption`), any
balances whose sum fits a u64 on finitely many accounts (`SupplyAssumption`, which
only the conservation of lamports uses), any injective assignment of vaults
(`VaultAssumption`), any sellers and number of deals (`DeliveryAssumption`), any
sellers, wallets, quotes, rounds and restarts (`MarketAssumption`;
`NoneAssumption` tells None apart from records), and so on. TLC evaluates these
assumptions in the runs. Properties that say "until the buyer restarts" have
`restarts = 0 =>` in their definition, and an invariant of the same form. Each
inductive invariant was checked by TLC before it was proved.

*FoldLemmas* is about no component: it proves what the sums and the folds of the
community modules compute. The induction theorems of the library take the predicate as an
operator, which the provers cannot instantiate. `NatSet`, `FiniteSubsets` and
`SeqSet` take it as a set instead, the set of the numbers (subsets, sequences) it
holds for, and follow from well-foundedness alone. With them: the fold that defines a sum exists
(`SumsExist`), its value does not depend on the order the elements are taken out
(`SumsSplit`, from which `SumSplit`, `SumWith` and `SumChange`), it is a natural
number no smaller than each of its terms (`SumNat`). A fold of a sequence that is
longer by one element is one step from the fold of what was there (`FoldingExists`,
`StepsAgree`), and flattening a sequence of sequences keeps exactly their elements
(`FlattensAll`). A filter goes through a sequence element by element
(`FilterAppend`), keeps what passes and its order (`InFilter`, `FilterOrder`),
distributes over concatenation (`FilterConcat`), and two filters are one
(`FilterAgain`).

*EscrowProofs.* The inductive invariant `Inv` is `TypeOK /\ Backed`. Types alone are
not inductive: `Released` subtracts the amount from what the account holds, and that
balances stay natural numbers needs that a live account holds at least
`Rent + amount`, which is `Backed`; it may hold more, since it can be named as a
seller. Every instruction changes the one ledger by transfers, and `Transferred` says
of one transfer, between keys that may be the same, what it leaves and that it keeps
the sum; with it `InitializedLedger`, `ReleasedLedger` and `RefundedLedger` compute
what each handler does to every key. `EscrowImplementsSettlement` maps an address to
"open" or "matured" by comparing the clock with its deadline, so one tick of the
clock is one `Mature` of a set of orders (`TickMatures`), and a reopened address
is a new order of Settlement. `LamportsAreConserved` adds `Balanced` to the
invariant: the sum of all balances is the initial one. No balance exceeds that sum,
so the seller of a live escrow has room for its deposit (`BalancedPays`) and a release
never fails on an overflow. `ClosingLeavesWhole` says who gained what when an
account disappears.

*ArbiterProofs* reuses these lemmas: the arbiter's instructions contain the
escrow's handlers, and lemmas such as `CreateKeepsInv` and `CloseKeepsInv` are
stated about the effect on the account, whatever else the transaction does. The
invariant is `ArbiterTypeOK /\ Inv`. `OpenLedger` and `SweptLedger` compute the ledger
of `open` (a vault gains the funds and pays them on) and of `arbitrate_refund` (the
vault is emptied into whichever account was passed). From them follow
`VaultsGiveOnlyRefunds`, `VaultDepositsLeaveWhole`, `ArbiterSettles` and
`ArbitratedLamportsAreConserved`; `DepositsLeaveWhole`, about the escrows wallets open
for themselves, needs that no arbitrated instruction closes one
(`ArbitratedKeepsWallets`); and `ArbiterImplementsSettlement` is the refinement with
both programs. They hold for any seller and any account a refund is swept to, vaults
and escrows included. That a vault is no wallet and that no two references share one
is what keeps the direct instructions out of vault escrows.

*DeliveryProofs.* The inductive invariant is
`TypeOK /\ Phases /\ Directories /\ NewestExists /\ BusyMeansScanning`. `Phases` ties the
audit's place, the broker's request, the process and its answer together (a
request that waits has no process, a process that was killed has answered with a
failure, findings are delivered as they were answered); without it a killed run
could still be delivered when it closes, which `FindingsAreOfFinishedRuns` excludes,
and a request could leave "scanning" by another way than an answer, which is
`BrokerIsBusyWithAScan`. `NewestExists` says that the directory written last is
one of the host's. `Directories` says of each directory which host it is
on and of each answer which directory it may be; `StrangeFindingsAreExplained`
follows. Most steps are `Quiet` (they start processes, drop directories, or
answer with failures) and keep it by one lemma; making a directory and closing a
run have their own.

*MarketProofs.* The properties relate the maps of one agent to messages on their
way to another, so the invariant `IInv` says of each message what sending it
implied. `Mail` (through `Backed`): a GRANT was issued to the seller it lies with
and for its round; an ESCROW_REQUIRED names a reference whose consent its seller
verified, and that seller's wallet; a DEPOSITED has its escrow. `Tokens` carries
the first into the sellers' maps, `InRound` the others into the buyer's
variables, `Placed` says what the buyer knows at each place of its loop.
`AnnouncedOnce` is the heart of `DeliveryBeginsOnce`: at most one DEPOSITED of a
reference is around, and while it is, work on it has not begun. `Escrows` and
`Jobs` tie escrows and work to the history, and with `WorkIsFunded` the whole is
inductive. `Market` changes inboxes in many ways (take, reply, send, lose,
restart); the lemmas up to `LosePosts` describe them all by `Post`, the existence
of an injective map from the new mentions to old ones, but for those that are
new, so each step is argued about once. From `IInv` follow `MarketTypeCorrect`,
`DepositsHaveConsent`, `SellersWorkFunded`, `PaymentIsFinal` and
`DeliveryBeginsOnce`, for every number of rounds, restarts and losses and with
reordering. `NothingPaidUnreported` and `WhatWasBidIsPaid` hold as long as the
buyer process lives (with a restart the first fails, section 7): their invariant
says of each message of the current round whom it comes from, so that a report
or a request for escrow that the buyer accepts is the winner's.

*StarterKitProofs.* `QuickInv` says that a reference leaves the server's map when
its payment has been verified and never returns, so whatever is served was paid
(`QuickstartServesThePaid`). `PurseInv` says of a guarded buyer that what it has on
the chain is no more than what it has counted, as long as it runs, and never
exceeds the budget; that each of its transfers bears another turn makes the sum
grow by one amount at a time (`GuardHoldsTheBudget`, with `AmountsSum` for the fold
of the model). `BridgeInv` ties each tab to its order and the order to its
conversation, with one case per route (`BridgeKeepsPaidOrders`; without
overlapping starts no more sessions were made than fronts are running).

`MarketInv` is about the starter market and its restarts: of each escrow, the
work that was done and the DEPOSITED that are still to be read and whose order is
still open are no more than the deposits made (`Covered`, a count of messages),
and deposits are what is locked and what was released. `SellersWorkBacked` follows. The attempt
to prove it showed an error of an earlier version of the model, in which a seller
looked at the escrow of its own settlement mode; the code looks at the one that
DEPOSITED names (`seller-agent/src/index.ts:93`). `LifeInv` is about a buyer that
was not restarted: each round has one award, the bids and terms of the round are
those of its sellers, each escrow one deposit and one release; `BuyerPaysTheBid`
follows.

`FeedInv` is about what the feed folds from the threads (`FeedShowsWhatWasPaid`).
Its first part, `TalkInv`, holds with restarts too: every RELEASED that was said in
any thread has an escrow that was released. The rest (`ShownInv`) is about the one thread
of a buyer that was not restarted: the bids shown are the prices the sellers asked,
the award is the one its seller was told, the amount is that of the terms the buyer
took, and what is shown as settled was paid on them. `FoldMore` says what one more
message changes on the screen, so most steps keep it for showing nothing new
(`CalmFed`), and the rounds that end, start, bid or pay are argued about one by one.

`BrokerInv` follows a request of the swarm through the broker's loop (`InRequest`,
`ChargedInOrder`) and keeps the books (`Books`): a charge is for data that was bought
and is the markup on the price its seller named, a payment is the charge, data goes
out for a payment. `MarkupIsKept` bounds what the rounding of the markup takes away,
and `BrokerIsPaidItsMarkup` follows for all quotes. It speaks of the price in the
text; what was paid is in the URL, and may be more (section 7).

*WorldCupProofs.* `AppInv` has four parts: what each call of the proxy may hold at
its place (`Calling`), what a settlement under way has already paid (`Settling`),
that the browser has at most one live effect, that of its selection (`OneEffect`),
and what is on the screen (`Screen`, with the sample numbers the code may show for a
live fixture). `ShowsTheSelected`, `SettledWasPaid` and
`PaidAfterRead` follow, for any number of fixtures, requests and restarts.

*SupportProofs.* `PricingInv` says that the bid on the table answers the WANT at
hand; `NoSellerBidsAtALoss` then follows from lemmas about the rounding and about
the cost. `ConsentInv` says of each stage of a grant what the ones before it
fixed; with `CodesTravel`, that the codes of a grant survive the way through the
WANT's argument, `EngineKeepsToTheGrant` follows. `DemoInv` says what each step of
the demo script has left behind (`Launches`), whatever an earlier run left and
whatever the dashboard does meanwhile: the nonce of the session it launched, and of
no other that runs, is the token this run has published. `LiveDemoIsAlone` is its
last step; it assumes neither that Coral restarted nor that the feed started.

`ReportsAddUp` is about sequences of findings. Those that are sold are `Sound`: each
of the severity that its entry gives it, and no AM number twice. The invariant
(`ReportInv`) is that the report to replay was built of sound findings and the
delivered one of what was read last. The coercion of the entries is a fold, whose
step gives the next number (`CoerceStepwise`, `CoercedAre`); the sort joins the five
filters by severity (`SortIs`), so it keeps every finding (`SortedLength`,
`InSorted`) and does nothing the second time (`SortedTwice`), which is why what is
replayed is what was kept; and the first chip is the severity of the first row
because both lists lead with the highest that is there (`Led`, `ChipsAre`).

`ViewsAreOfOneMind` holds for every script that satisfies `ScriptAssumption`, not
only for the ones of the run. `Tells` relates a round that is shown to the
transcript, and is proved by induction over it (`TellsMore`, from `FoldMessage`,
which says what each verb changes): the bids shown are bids that were said, the
award and the amount are those of some AWARD and of some ESCROW_REQUIRED, and each
status has left its mark. A released round is settled or was refunded since. The
invariant of the tab (`TabInv`) is that what is shown, and each answer on its way,
is what some session's agents had said after some of their parts. The views follow
clause by clause (`StandingAgrees`, `AwardIsBid`, `PriceIsAmount`; the settled sum
and that of the rail are two folds over one set, `SumsMeet`).

Proving them showed errors of earlier versions of the models. The refunded flag of a
round followed its status, so that a delivery after a refund lost it, while the code
keeps it (`foldRounds.ts:159`); several `CASE`s had overlapping guards, which TLC
resolves to the first and the logic does not; and no script of the run settled a
round without playing it again, so that the clause about the settled sum was never
at work.

## 6. What is only model-checked, and what is not modelled

Only model-checked:

- all liveness (`RoundsEnd`, `WorkEnds`, `AwardIsPaid`, `AuditEnds`,
  `BrokerFrees`, `CatchesUp`): it rests on fairness and so on ENABLED, which is out
  of the prover's reach;
- the violations of section 7, which are behaviours and not theorems.

Every other property of the runs, that is every invariant, every action property and
both refinements, is proved for all values of the constants.

Not modelled:

- the LLM client (one HTTP call; its answer is the nondeterminism of bids, awards
  and tool calls), the echo agent and the user proxy (no protocol state);
- launchers other than `demo.mjs` and `start-audit.ts`: each creates one session
  and exits;
- rendering, styles and wording in the web applications;
- `ReplayGuard` and the seller's SOL payment URL (`seller-agent/src/replay.ts`,
  `payment.ts`): used by their own tests and by no agent;
- the command line of `txodds/agent`: the same functions without the proxy.

Abstracted or left out of the modelled parts:

- on chain: plain transfers between wallets, accounts below the rent-exempt
  minimum, transaction fees and the rent of the arbiter's config account;
- in the market: the text of messages, signatures, canonical JSON and scopes
  (Consent and Scope have them); `ensureArbiterConfig`
  (`audit-buyer/src/arbiter.ts:87` accepts a config that names another arbiter;
  every release then fails, which is the failing payment of the model); a grant
  stored for a round number stays in the seller's map;
- in the delivery: the content of progress events; the broker's filter of
  findings by scope;
- in the World Cup Oracle: the nonce of a reference, the age of the cached board
  (wherever the code compares it both answers are taken), and the user's own
  wallet payment, which no other state depends on;
- in the bridge and the 402 server: the upstream data; in the demo: dependencies,
  images and the engine's installation.

## 7. Where code and documentation disagree

Shown by a run:

| Run | The text | The code |
| --- | --- | --- |
| `market_report` | `audit-buyer/src/index.ts:254`: "a valid report for THIS deal" | after a restart the correlation id `am-r<round>-<nonce>` repeats, and an old report passes |
| `market_refund` | ARCHITECTURE.md:163: the funds "stay in escrow and refund after the deadline" | no agent calls refund or `arbitrate_refund` |
| `delivery_findings` | `scan-broker.mjs:6`: the scan "matches the deal" | a run without a directory of its own takes another's; two scans may overlap |
| `support_budget` | `bidder.ts:6-8`: a bid is "never above the buyer's budget" | the price is rounded to four decimals after it was capped (`cost.ts:72`): a budget of 0.06006 SOL gets a bid of 0.0601. `bidder.test.ts:72` tests a budget of few decimals; for those `NoBidAtALoss` has the promise kept |

Shown by a configuration beside the runs, in which TLC finds the text violated:

| Configuration | The text | The code |
| --- | --- | --- |
| `MCArbiterRefund.cfg`, `RefundReachesPayer` | `arbiter/src/lib.rs:11`: "swept back to the payer"; `:214`: "the original payer" | the payer is not stored; the sweep goes to whichever account the arbiter passes (`:216`), another wallet, another vault or the vault itself |
| `MCWorldCupSample.cfg`, `NoSampleNumbersOnLive` | `web/app.js:4-5`: "never mixes demo numbers into a live fixture" | when `/api/edge` fails, a live fixture whose first row has no `PriceNames` is shown the sample board's numbers as its own (`:94`) |
| `MCStarterKitSpread.cfg`, `BrokerKeepsTheSpread` | `broker/src/index.ts:9`: "keeps the spread" | it pays the amount of the seller's URL and charges on that of its text (`:65`, `:77`); for prices below 1.3 micro-SOL rounding to six decimals, too, may take more than the markup |
| `MCStarterKitOnce.cfg`, `ReferenceIsOneShot` | `quickstart/server.ts:33`: outstanding references are "one-shot" | the reference is forgotten after the verification (`:59`): two proofs of one payment under way at once are both served |
| `MCSupportRestart.cfg`, `NoPriorSessionLingers` | `demo.mjs:179`: "restart coral so no prior session lingers" | a restart that fails is passed over (`:181`); so is a feed that does not start, and the script says "live" all the same (`:196-201`) |

Met while modelling, and contained in the models without a run of their own. In
the market and its settlement:

- `deliver.ts:88` says "Never throws": an event that cannot be posted throws, and
  so does a spawn that throws at once, since `done` clears a timer that is
  declared after it (`strix.ts:81`).
- a restarted buyer counts its rounds from 1, and its WANT overwrites the quote of
  a seller that still holds an award of that number; the terms may then name another
  price than was bid. `PaysWhatWasBid` is stated for one life of the buyer, and no
  text promises more.
- `shared/src/authorization.ts:43` says nonces dedupe replays; nothing remembers
  them. `challenge.ts:62` has the proof of control checked on every release; it is
  checked at the award and at the start of the scan.
- `AUDIT_SCOPES` of unknown codes only decodes to nothing, and then every awarded
  round fails in the schema.
- `scan-broker.mjs:86` delivers all findings when none is in scope; ids an engine
  gave itself may repeat in a report.

In what shows and starts it:

- the pipeline view stops a round whose consent was rejected at the award, also
  when a deposit or a refund followed; a restarted starter buyer's second terms
  change the settled sum while the rail keeps the first bid;
- `/api/start` runs the starter market's launcher, and one that answers after the
  504 still makes a session, which no tab is bound to;
- `demo.mjs:194` kills every process with a socket on port 4000, which may be the
  browser, and without `lsof` an old feed keeps the port.

In what it comes from:

- `llm_buyer.ts:180` retries without the reference, so the 402 server refuses it;
  `buyer.ts:47` compares each payment with the limit and not their sum;
- the bridge keeps a session promise that was rejected, so every later order
  fails until a restart (`server.ts:83`); a checkout whose last request failed has
  no way back to its order (`useCheckout.ts:38`), although the bridge still has it;
- a settlement of the World Cup Oracle whose arbitrated release failed is made
  again directly, with the first deposit still locked (`proxy.ts:323`); the read
  that was shown need not be the one the order is bound to, since quotes move in
  between (`app.js:214`: "the on-chain order IS the data bought"); an activation
  that answers without a token is kept (`proxy.ts:111`); two first calls subscribe
  twice (`proxy.ts:79`).

## 8. How the development is laid out, and what could follow

The order was that of importance: Settlement, Escrow and Arbiter, which hold the
money, and their proofs; Market and Delivery, which move it, and theirs; then
what feeds a deal and shows it (Support), what the project was forked from
(StarterKit) and the World Cup Oracle, with theirs. Every component has one module; components that meet are composed
(Arbiter with Escrow, Market with Settlement, Starter and Dashboard with Feed,
Demo with Dashboard, Pricing and Consent with Scope).

To change a model, change the operator named for the code, run the configuration
of its `MC` module and then the proofs of its proof module; a property has a
variant to try it against, by putting the variant in the place of the operator
after it.

One step would say more. Market's Settlement instance could be replaced by
Arbiter itself, so that the deposit and the payment are the arbiter's
instructions; since Arbiter is proved to implement Settlement this would add the
config account and the rents.
