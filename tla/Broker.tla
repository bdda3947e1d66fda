------------------------------- MODULE Broker -------------------------------
(***************************************************************************)
(* The swarm broker (coral-agents/broker): it asks every seller for a      *)
(* price, buys from the cheapest with its own money and sells what it got  *)
(* on to the buyer.  Buyers and sellers are other agents; the broker does  *)
(* one request at a time, and what it does not wait for is lost.           *)
(*                                                                         *)
(* A seller's quote has two figures: the price its text names, by which    *)
(* the broker compares the quotes and makes its own, and the amount in its *)
(* payment URL, which the broker pays.  Nothing makes them one.            *)
(***************************************************************************)
EXTENDS Integers, Sequences, FiniteSets

CONSTANTS
  Sellers,    \* SWARM_SELLERS, in order
  Quotes,     \* the quotes a seller may make: the price named and the amount in
              \* the URL, in units of 10^-7 SOL
  Threads,    \* the threads of the buyers, one for each
  MaxAsks,    \* bound of the requests
  BrokerMax,  \* BROKER_MAX_SOL
  Percent     \* MARKUP

Asks == 1 .. MaxAsks
Names == {Sellers[i] : i \in DOMAIN Sellers}

BrokerAssumption ==
  /\ {MaxAsks, BrokerMax, Percent} \subseteq Nat
  /\ Quotes \subseteq [price : Nat \ {0}, url : Nat]
  /\ Sellers \in Seq(Names) /\ "none" \notin Threads

VARIABLES
  broker,   \* the process
  mentions, \* what it has not read yet
  due,      \* <<seller, n, what>>: what a seller owes to request n
  asks,     \* how many requests were made and received
  charge,   \* n -> what the buyer was asked to pay, in which thread, and for which
            \* price of the seller
  spent,    \* n -> what was paid to the seller
  earned,   \* n -> what the buyer paid, which may be nothing, or Unpaid
  resold    \* history: the requests whose data was delivered

brokerVars == <<broker, mentions, due, asks, charge, spent, earned, resold>>

Unpaid == -1
NoQuote == [price |-> 0, url |-> 0]
NoCharge == [amount |-> 0, thread |-> "none", cost |-> 0]
Idle == [pc |-> "idle", n |-> 0, thread |-> "none", next |-> 1, quotes |-> <<>>]

BrokerInit ==
  /\ broker = Idle /\ mentions = <<>> /\ due = {} /\ asks = [made |-> 0, taken |-> 0]
  /\ charge = [n \in Asks |-> NoCharge]
  /\ spent = [n \in Asks |-> 0] /\ earned = [n \in Asks |-> Unpaid] /\ resold = {}

-----------------------------------------------------------------------------
(***************************************************************************)
(* The other agents.  A buyer pays what it is asked for; it may also ask   *)
(* again, or send a proof that is none.                                    *)
(***************************************************************************)
ToBroker(thread, kind, n, quote) ==
  mentions' = Append(mentions, [thread |-> thread, kind |-> kind, n |-> n, quote |-> quote])

Request(t) ==
  /\ asks.made < MaxAsks /\ asks' = [asks EXCEPT !.made = @ + 1]
  /\ ToBroker(t, "request", 0, NoQuote)
  /\ UNCHANGED <<broker, due, charge, spent, earned, resold>>

PayCharge(t, n) ==
  /\ charge[n].thread = t /\ earned[n] = Unpaid
  /\ earned' = [earned EXCEPT ![n] = charge[n].amount]
  /\ ToBroker(t, "paid", n, NoQuote)
  /\ UNCHANGED <<broker, due, asks, charge, spent, resold>>

Bluff(t, n) ==
  /\ charge[n].thread = t /\ earned[n] = Unpaid /\ mentions = <<>>
  /\ ToBroker(t, "paid", n, NoQuote)
  /\ UNCHANGED <<broker, due, asks, charge, spent, earned, resold>>

\* A seller answers late, or with something else, or never.  The two figures of
\* its quote are its own choice.
SellerAnswers(x, n, what) ==
  /\ <<x, n, what>> \in due /\ due' = due \ {<<x, n, what>>}
  /\ \/ what = "quote" /\ \E quote \in Quotes : ToBroker(<<x, n>>, what, n, quote)
     \/ what = "delivered" /\ ToBroker(<<x, n>>, what, n, NoQuote)
     \/ ToBroker(<<x, n>>, "error", n, NoQuote)
  /\ UNCHANGED <<broker, asks, charge, spent, earned, resold>>
-----------------------------------------------------------------------------
(***************************************************************************)
(* The broker.                                                             *)
(***************************************************************************)
Hears == mentions # <<>> /\ mentions' = Tail(mentions)
OthersSame == UNCHANGED <<charge, spent, earned, resold>>

TakeAsk ==
  /\ broker.pc = "idle" /\ Hears /\ asks.taken < MaxAsks
  /\ IF Head(mentions).kind = "request"
     THEN /\ asks' = [asks EXCEPT !.taken = @ + 1]
          /\ broker' = [Idle EXCEPT !.pc = "ask", !.n = asks'.taken, !.thread = Head(mentions).thread]
     ELSE UNCHANGED <<broker, asks>>
  /\ UNCHANGED due /\ OthersSame

AskNext ==
  /\ broker.pc = "ask"
  /\ IF broker.next > Len(Sellers)
     THEN broker' = (IF broker.quotes = <<>> THEN Idle ELSE [broker EXCEPT !.pc = "buy"]) /\ UNCHANGED due
     ELSE /\ broker' = [broker EXCEPT !.pc = "quote"]
          /\ due' = due \cup {<<Sellers[broker.next], broker.n, "quote">>}
  /\ UNCHANGED <<mentions, asks>> /\ OthersSame

\* waitForMentionInThread drops what other threads say, and ends in time.
HearQuote ==
  /\ broker.pc = "quote"
  /\ \/ /\ Hears
        /\ LET m == Head(mentions)
               further == [broker EXCEPT !.pc = "ask", !.next = @ + 1]
           IN  broker' = IF m.thread # <<Sellers[broker.next], broker.n>> THEN broker
                         ELSE IF m.kind # "quote" THEN further
                         ELSE [further EXCEPT !.quotes =
                                 Append(@, [seller |-> Sellers[broker.next], quote |-> m.quote])]
     \/ /\ broker' = [broker EXCEPT !.pc = "ask", !.next = @ + 1] /\ UNCHANGED mentions
  /\ UNCHANGED <<due, asks>> /\ OthersSame

\* The first of the cheapest, by the prices named.
pickCheapest(quotes) ==
  quotes[CHOOSE i \in DOMAIN quotes :
           \A j \in DOMAIN quotes :
             /\ quotes[i].quote.price <= quotes[j].quote.price
             /\ j < i => quotes[i].quote.price < quotes[j].quote.price]
Cheapest == pickCheapest(broker.quotes)
Best == Cheapest.quote

\* payFromUrl pays the amount of the URL and refuses none and one over the
\* limit.  A transfer that landed may be taken for one that failed.
Buy ==
  /\ broker.pc = "buy"
  /\ \/ /\ 0 < Best.url /\ Best.url <= BrokerMax
        /\ spent' = [spent EXCEPT ![broker.n] = Best.url]
        /\ \/ /\ broker' = [broker EXCEPT !.pc = "delivery"]
              /\ due' = due \cup {<<Cheapest.seller, broker.n, "delivered">>}
           \/ broker' = Idle /\ UNCHANGED due
     \/ broker' = Idle /\ UNCHANGED <<due, spent>>
  /\ UNCHANGED <<mentions, asks, charge, earned, resold>>

HearDelivery ==
  /\ broker.pc = "delivery"
  /\ \/ /\ Hears
        /\ LET m == Head(mentions)
           IN  broker' = IF m.thread # <<Cheapest.seller, broker.n>> THEN broker
                         ELSE IF m.kind = "delivered" THEN [broker EXCEPT !.pc = "resell"]
                         ELSE Idle
     \/ broker' = Idle /\ UNCHANGED mentions
  /\ UNCHANGED <<due, asks>> /\ OthersSame

\* (amount * MARKUP).toFixed(6): to ten units, halves up.
Resale(amount) == 10 * ((amount * Percent + 500) \div 1000)

Resell ==
  /\ broker.pc = "resell"
  /\ charge' = [charge EXCEPT ![broker.n] =
                [amount |-> Resale(Best.price), thread |-> broker.thread, cost |-> Best.price]]
  /\ broker' = [broker EXCEPT !.pc = "proof"]
  /\ UNCHANGED <<mentions, due, asks, spent, earned, resold>>

\* A variant that does not look at the payment of this very charge.
verifyPaymentUnbound(m) == m.kind = "paid" /\ \E n \in Asks : earned[n] # Unpaid

verifyPayment(m) == m.kind = "paid" /\ m.n = broker.n /\ earned[m.n] >= charge[broker.n].amount

\* Anything said in the buyer's thread is taken for its proof, once.
HearProof ==
  /\ broker.pc = "proof"
  /\ \/ /\ Hears
        /\ LET m == Head(mentions) IN
           IF m.thread # broker.thread THEN UNCHANGED <<broker, resold>>
           ELSE /\ broker' = Idle
                /\ \/ verifyPayment(m) /\ resold' = resold \cup {broker.n}
                   \/ UNCHANGED resold
     \/ broker' = Idle /\ UNCHANGED <<mentions, resold>>
  /\ UNCHANGED <<due, asks, charge, spent, earned>>

\* An error ends the cycle, and so does a restart, which also loses the mentions.
CycleError ==
  /\ broker # Idle /\ broker' = Idle
  /\ mentions' \in {mentions, <<>>}
  /\ UNCHANGED <<due, asks>> /\ OthersSame

BrokerStep == \/ TakeAsk \/ AskNext \/ HearQuote \/ Buy \/ HearDelivery \/ Resell \/ HearProof
              \/ CycleError

BrokerNext ==
  \/ BrokerStep
  \/ \E t \in Threads : Request(t) \/ \E n \in Asks : PayCharge(t, n) \/ Bluff(t, n)
  \/ \E d \in due : SellerAnswers(d[1], d[2], d[3])

BrokerSpec == BrokerInit /\ [][BrokerNext]_brokerVars
-----------------------------------------------------------------------------
\* What the broker delivered it bought, and the buyer paid for it with the charge
\* of that very request: the price its seller named with the markup, to half a
\* micro-SOL.  Late payments and proofs of other requests never stand in for it
\* (broker/src/index.ts:60-91).
ResalePaysTheMarkup ==
  \A n \in resold :
    /\ spent[n] > 0
    /\ earned[n] = charge[n].amount
    /\ 100 * earned[n] >= Percent * charge[n].cost - 500

\* A buyer is asked to pay only for data the broker holds, which it paid for.
ChargesForBoughtData == \A n \in Asks : charge[n] # NoCharge => spent[n] > 0

\* "The broker keeps the spread" (broker/src/index.ts:9): a resale brings in no
\* less than was paid for it.
BrokerKeepsTheSpread == \A n \in resold : earned[n] >= spent[n]
=============================================================================
