----------------------------- MODULE Quickstart -----------------------------
(***************************************************************************)
(* Pay per request over HTTP 402: the quickstart server                    *)
(* (examples/agent-economy/quickstart), which trades a payment reference   *)
(* for data, and the two buyers that a language model drives: buyer.ts     *)
(* beside it and LLMBuyerStrategy of the buyer agent.  The model may ask   *)
(* for any payment; what is sent is up to the code.                        *)
(***************************************************************************)
EXTENDS Integers, FiniteSets, FiniteSetsExt

CONSTANTS
  Buyers,    \* the processes of the buyers
  Curl,      \* any other client that holds a reference
  Seller, Stranger,  \* wallets
  Price,     \* PRICE_SOL
  Budget,    \* BUYER_MAX_SOL
  MaxTurns,  \* bound of the tool calls of a buyer (8 turns)
  MaxRefs    \* bound of the challenges

Clients == Buyers \cup {Curl}
References == 1 .. MaxRefs
Amounts == 1 .. Budget + 1

QuickstartAssumption ==
  /\ Curl \notin Buyers /\ Seller # Stranger
  /\ {Price, Budget, MaxTurns, MaxRefs} \subseteq Nat

VARIABLES
  pending,   \* server: the references that can still be exchanged
  issued,    \* how many references were made
  call,      \* the request of each client, and where its handler is
  buyer,     \* the loop of each buyer
  transfers, \* confirmed transfers [ref, amount, to, from]
  served     \* history: how often each reference was served

quickVars == <<pending, issued, call, buyer, transfers, served>>

NoCall == [pc |-> "none", ref |-> 0, late |-> FALSE]
\* ReplayGuard is no part of it: nothing calls it.
\* A guarded buyer runs LLMBuyerStrategy, the other one buyer.ts.
NewBuyers == [on : {TRUE}, guarded : BOOLEAN, turns : {0}, recipients : {{}}, seen : {{}}, spent : {0}]

QuickInit ==
  /\ pending = {} /\ issued = 0 /\ transfers = {}
  /\ call = [c \in Clients |-> NoCall]
  /\ buyer \in [Buyers -> NewBuyers]
  /\ served = [r \in References |-> 0]

-----------------------------------------------------------------------------
(***************************************************************************)
(* The server.                                                             *)
(***************************************************************************)

\* Without a proof: a challenge.
Challenge(b) ==
  /\ issued < MaxRefs
  /\ issued' = issued + 1 /\ pending' = pending \cup {issued'}
  /\ buyer' = [buyer EXCEPT ![b].turns = @ + 1, ![b].recipients = @ \cup {Seller},
                            ![b].seen = @ \cup {issued'}]
  /\ UNCHANGED <<call, transfers, served>>

\* With one: an unknown reference, or none (0), is refused at once.
Arrives(c, ref) ==
  call' = IF ref \in pending
          THEN [call EXCEPT ![c] = [pc |-> "verify", ref |-> ref, late |-> served[ref] > 0]]
          ELSE call

\* verifyPayment: findReference, then validateTransfer.
\* A variant that looks for the amount and the recipient only.
verifyPaymentUnbound(ref) == \E t \in transfers : t.to = Seller /\ t.amount >= Price

verifyPayment(ref) == \E t \in transfers : t.ref = ref /\ t.to = Seller /\ t.amount >= Price

\* An error of the network counts as no payment.  The reference is forgotten
\* only now, so a second proof of it may be on its way already.
Verify(c) ==
  /\ call[c].pc = "verify"
  /\ \/ /\ verifyPayment(call[c].ref)
        /\ pending' = pending \ {call[c].ref}
        /\ call' = [call EXCEPT ![c].pc = "deliver"]
     \/ /\ call' = [call EXCEPT ![c] = NoCall]
        /\ UNCHANGED pending
  /\ UNCHANGED <<issued, buyer, transfers, served>>

\* Data, or the error of the upstream: a payment always gets an answer.
deliverData(c) ==
  /\ call[c].pc = "deliver"
  /\ served' = [served EXCEPT ![call[c].ref] = @ + 1]
  /\ call' = [call EXCEPT ![c] = NoCall]
  /\ UNCHANGED <<pending, issued, buyer, transfers>>

\* The map of the references is in memory, and the open requests break.
ServerRestarts ==
  /\ pending # {} /\ pending' = {}
  /\ call' = [c \in Clients |-> NoCall]
  /\ buyer' = [b \in Buyers |-> IF call[b] # NoCall THEN [buyer[b] EXCEPT !.on = FALSE] ELSE buyer[b]]
  /\ UNCHANGED <<issued, transfers, served>>

Present(ref) ==
  /\ call[Curl] = NoCall /\ Arrives(Curl, ref)
  /\ UNCHANGED <<pending, issued, buyer, transfers, served>>
-----------------------------------------------------------------------------
(***************************************************************************)
(* The buyers.  A tool call that throws ends the loop.                     *)
(***************************************************************************)
Thinks(b) == buyer[b].on /\ buyer[b].turns < MaxTurns /\ call[b] = NoCall

FetchData(b) == Thinks(b) /\ Challenge(b)

\* guardPayment.
guardPayment(b, to, amount, ref) ==
  /\ to \in buyer[b].recipients
  /\ ref = 0 \/ ref \in buyer[b].seen
  /\ buyer[b].spent + amount <= Budget

\* payAndRetry of buyer.ts looks at this payment alone.
MayPay(b, to, amount, ref) ==
  IF buyer[b].guarded THEN guardPayment(b, to, amount, ref) ELSE amount <= Budget

Transfer(b, to, amount, ref) ==
  transfers' = transfers \cup {[ref |-> ref, amount |-> amount, to |-> to, from |-> b,
                                n |-> buyer[b].turns]}

\* A variant in which an error of the transfer is reported to the model.
TransferCaught(b, to, amount, ref) ==
  /\ Transfer(b, to, amount, ref) \/ UNCHANGED transfers
  /\ buyer' = [buyer EXCEPT ![b].turns = @ + 1]

\* The transfer failed, or landed without the buyer learning it.
TransferThrows(b, to, amount, ref) ==
  /\ Transfer(b, to, amount, ref) \/ UNCHANGED transfers
  /\ buyer' = [buyer EXCEPT ![b].on = FALSE]

\* LLMBuyerStrategy sends the signature only, so the server refuses it.
PayAndRetry(b, to, amount, ref) ==
  /\ Thinks(b) /\ MayPay(b, to, amount, ref)
  /\ \/ /\ Transfer(b, to, amount, ref)
        /\ buyer' = [buyer EXCEPT ![b].turns = @ + 1, ![b].spent = @ + amount]
        /\ Arrives(b, IF buyer[b].guarded THEN 0 ELSE ref)
     \/ TransferThrows(b, to, amount, ref) /\ UNCHANGED call
  /\ UNCHANGED <<pending, issued, served>>

\* A refusal uses up a turn as well.
Refused(b, to, amount, ref) ==
  /\ Thinks(b) /\ ~ MayPay(b, to, amount, ref)
  /\ buyer' = [buyer EXCEPT ![b].turns = @ + 1]
  /\ UNCHANGED <<pending, issued, call, transfers, served>>

\* A final answer.
Finish(b) ==
  /\ buyer[b].on /\ call[b] = NoCall
  /\ buyer' = [buyer EXCEPT ![b].on = FALSE]
  /\ UNCHANGED <<pending, issued, call, transfers, served>>

QuickNext ==
  \/ \E c \in Clients : Verify(c) \/ deliverData(c)
  \/ ServerRestarts \/ \E ref \in 1 .. issued : Present(ref)
  \/ \E b \in Buyers :
       \/ FetchData(b) \/ Finish(b)
       \/ \E to \in {Seller, Stranger}, amount \in Amounts, ref \in 0 .. issued :
            PayAndRetry(b, to, amount, ref) \/ Refused(b, to, amount, ref)

QuickSpec == QuickInit /\ [][QuickNext]_quickVars
-----------------------------------------------------------------------------
\* What the server serves was paid under the very reference it was asked for,
\* and a request that came after the reference was served is never served
\* itself, although the payment is looked up while other requests go on
\* (quickstart/server.ts:53-76).
ServedIsPaid ==
  /\ \A r \in References : served[r] > 0 =>
       \E t \in transfers : t.ref = r /\ t.to = Seller /\ t.amount >= Price
  /\ \A c \in Clients : call[c].pc = "deliver" => ~ call[c].late

\* A guarded buyer never has more than its budget on the chain, over all its
\* calls and with a transfer it never saw confirmed, and pays only wallets and
\* references of a challenge (buyer-agent/src/guard.ts:29, llm_buyer.ts:167-183).
GuardedSpend ==
  \A b \in Buyers : buyer[b].guarded =>
    LET mine == {t \in transfers : t.from = b}
    IN  /\ MapThenSumSet(LAMBDA t : t.amount, mine) <= Budget
        /\ \A t \in mine : t.to = Seller /\ t.ref \in buyer[b].seen \cup {0}

\* What the server says of the references it hands out: "one-shot, in-memory"
\* (quickstart/server.ts:33).
ReferenceIsOneShot == \A r \in References : served[r] <= 1
=============================================================================
