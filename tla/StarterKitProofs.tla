-------------------------- MODULE StarterKitProofs --------------------------
(***************************************************************************)
(* Proofs about the sides of the starter kit.  A step of another side      *)
(* leaves the variables of a side alone, so the invariant of each is       *)
(* carried over by one case for its own actions.                           *)
(***************************************************************************)
EXTENDS StarterKit, FoldLemmas, FiniteSetTheorems, SequenceTheorems, WellFoundedInduction, TLAPS

References == http402!References
Clients == http402!Clients
PaidBy(sent, r) == \E t \in sent : t.ref = r /\ t.to = Seller /\ t.amount >= Price

Call == [pc : {"none", "verify", "deliver"}, ref : 0 .. MaxRefs, late : {FALSE}]

\* The shape of the server's state.
QuickTyped ==
  /\ issued \in 0 .. MaxRefs /\ pending \subseteq 1 .. issued
  /\ served \in [References -> Nat]
  /\ call \in [Clients -> Call]
  /\ \A c \in Clients : call[c].pc # "none" => call[c].ref \in 1 .. issued

\* A reference leaves the map when its payment has been verified and comes
\* back never, so what is served or about to be has been paid.
PaidFirst ==
  /\ \A c \in Clients : call[c].pc = "deliver" => call[c].ref \notin pending /\ PaidBy(transfers, call[c].ref)
  /\ \A r \in References : served[r] > 0 => r \in 1 .. issued /\ r \notin pending /\ PaidBy(transfers, r)

QuickInv == QuickTyped /\ PaidFirst

LEMMA CallsTyped ==
  ASSUME MaxRefs \in Nat
  PROVE  /\ http402!NoCall \in Call
         /\ \A ref \in 0 .. MaxRefs : [pc |-> "verify", ref |-> ref, late |-> FALSE] \in Call
         /\ \A k \in Call : [k EXCEPT !.pc = "deliver"] \in Call
  <1>1. http402!NoCall \in Call
    BY DEF Call, http402!NoCall
  <1>2. \A ref \in 0 .. MaxRefs : [pc |-> "verify", ref |-> ref, late |-> FALSE] \in Call
    BY DEF Call
  <1>3. \A k \in Call : [k EXCEPT !.pc = "deliver"] \in Call
    BY DEF Call
  <1> QED BY <1>1, <1>2, <1>3

LEMMA QuickInitial == ASSUME StarterKitAssumption, Init PROVE QuickInv
  <1>1. MaxRefs \in Nat
    BY DEF StarterKitAssumption, http402!QuickstartAssumption
  <1>2. QuickTyped
    BY <1>1 DEF Init, http402!QuickInit, QuickTyped, References, Clients, Call, http402!References,
       http402!NoCall
  <1>3. PaidFirst
    BY DEF Init, http402!QuickInit, PaidFirst, References, Clients, http402!References, http402!NoCall
  <1> QED BY <1>2, <1>3 DEF QuickInv

\* The part of the invariant that a step disturbs which opens no call but
\* with a reference of the map, and loses no transfer.
LEMMA BuyersKeepQuick ==
  ASSUME StarterKitAssumption, QuickInv, NEW c \in Clients, NEW ref \in 0 .. issued,
         UNCHANGED <<pending, issued, served>>, transfers \subseteq transfers',
         http402!Arrives(c, ref) \/ UNCHANGED call
  PROVE  QuickInv'
  <1>1. MaxRefs \in Nat
    BY DEF StarterKitAssumption, http402!QuickstartAssumption
  <1>2. \A r : PaidBy(transfers, r) => PaidBy(transfers', r)
    BY DEF PaidBy
  <1>3. CASE UNCHANGED call
    BY <1>2, <1>3 DEF QuickInv, QuickTyped, PaidFirst
  <1>4. CASE http402!Arrives(c, ref) /\ ~ UNCHANGED call
    <2>1. ref \in pending /\ call' = [call EXCEPT ![c] = [pc |-> "verify", ref |-> ref, late |-> served[ref] > 0]]
      BY <1>4 DEF http402!Arrives
    <2>2. ref \in 1 .. issued /\ ref \in References /\ ~ served[ref] > 0
      BY <1>1, <2>1 DEF QuickInv, QuickTyped, PaidFirst, References, http402!References
    <2>3. call' = [call EXCEPT ![c] = [pc |-> "verify", ref |-> ref, late |-> FALSE]]
      <3>1. (served[ref] > 0) = FALSE
        BY <2>2
      <3> QED BY <2>1, <3>1, Zenon
    <2>4. QuickTyped'
      BY <1>1, <2>2, <2>3, CallsTyped DEF QuickInv, QuickTyped, References, http402!References
    <2>5. PaidFirst'
      <3>1. \A d \in Clients : call'[d].pc = "deliver" => d # c /\ call'[d] = call[d]
        BY <2>3 DEF QuickInv, QuickTyped
      <3>2. \A r \in References : served[r] > 0 => PaidBy(transfers', r)
        BY <1>2 DEF QuickInv, PaidFirst
      <3>3. \A d \in Clients : call[d].pc = "deliver" => PaidBy(transfers', call[d].ref)
        BY <1>2 DEF QuickInv, PaidFirst
      <3> QED BY <3>1, <3>2, <3>3 DEF QuickInv, PaidFirst
    <2> QED BY <2>4, <2>5 DEF QuickInv
  <1> QED BY <1>3, <1>4

LEMMA QuickstartStep == ASSUME StarterKitAssumption, QuickInv, http402!QuickNext PROVE QuickInv'
  <1>1. MaxRefs \in Nat
    BY DEF StarterKitAssumption, http402!QuickstartAssumption
  <1>2. ASSUME NEW c \in Clients, http402!Verify(c) PROVE QuickInv'
    <2>1. \A r : PaidBy(transfers', r) = PaidBy(transfers, r)
      BY <1>2 DEF http402!Verify, PaidBy
    <2>2. /\ call[c].pc = "verify" /\ UNCHANGED <<issued, served>>
          /\ pending' \subseteq pending
      BY <1>2 DEF http402!Verify
    <2>3. CASE call' = [call EXCEPT ![c] = http402!NoCall] /\ UNCHANGED pending
      <3>1. QuickTyped'
        BY <1>1, <2>2, <2>3, CallsTyped DEF QuickInv, QuickTyped, http402!NoCall
      <3>2. PaidFirst'
        BY <2>1, <2>2, <2>3 DEF QuickInv, QuickTyped, PaidFirst, http402!NoCall
      <3> QED BY <3>1, <3>2 DEF QuickInv
    <2>4. CASE /\ http402!verifyPayment(call[c].ref)
               /\ pending' = pending \ {call[c].ref}
               /\ call' = [call EXCEPT ![c].pc = "deliver"]
      <3>1. PaidBy(transfers, call[c].ref)
        BY <2>4 DEF http402!verifyPayment, PaidBy
      <3>2. QuickTyped'
        BY <1>1, <2>2, <2>4 DEF QuickInv, QuickTyped, Call
      <3>3. PaidFirst'
        BY <2>1, <2>2, <2>4, <3>1 DEF QuickInv, QuickTyped, PaidFirst, Call
      <3> QED BY <3>2, <3>3 DEF QuickInv
    <2> QED BY <1>2, <2>3, <2>4 DEF http402!Verify
  <1>3. ASSUME NEW c \in Clients, http402!deliverData(c) PROVE QuickInv'
    <2>1. \A r : PaidBy(transfers', r) = PaidBy(transfers, r)
      BY <1>3 DEF http402!deliverData, PaidBy
    <2>2. /\ call[c].pc = "deliver" /\ UNCHANGED <<issued, pending>>
          /\ served' = [served EXCEPT ![call[c].ref] = @ + 1]
          /\ call' = [call EXCEPT ![c] = http402!NoCall]
      BY <1>3 DEF http402!deliverData
    <2>3. call[c].ref \in References
      BY <1>1, <2>2 DEF QuickInv, QuickTyped, References, http402!References
    <2>4. QuickTyped'
      BY <1>1, <2>2, <2>3, CallsTyped DEF QuickInv, QuickTyped, http402!NoCall
    <2>5. PaidFirst'
      BY <2>1, <2>2, <2>3 DEF QuickInv, QuickTyped, PaidFirst, http402!NoCall
    <2> QED BY <2>4, <2>5 DEF QuickInv
  <1>4. ASSUME http402!ServerRestarts PROVE QuickInv'
    <2>1. \A r : PaidBy(transfers', r) = PaidBy(transfers, r)
      BY <1>4 DEF http402!ServerRestarts, PaidBy
    <2>2. /\ pending' = {} /\ call' = [c \in Clients |-> http402!NoCall]
          /\ UNCHANGED <<issued, served>>
      BY <1>4 DEF http402!ServerRestarts, Clients
    <2>3. QuickTyped'
      BY <1>1, <2>2 DEF QuickInv, QuickTyped, Call, http402!NoCall
    <2>4. PaidFirst'
      BY <2>1, <2>2 DEF QuickInv, PaidFirst, http402!NoCall
    <2> QED BY <2>3, <2>4 DEF QuickInv
  <1>5. ASSUME NEW ref \in 1 .. issued, http402!Present(ref) PROVE QuickInv'
    <2>1. Curl \in Clients
      BY DEF Clients, http402!Clients
    <2> QED BY <1>5, <2>1, BuyersKeepQuick DEF http402!Present, QuickInv, QuickTyped
  <1>6. ASSUME NEW b \in Buyers, http402!FetchData(b) PROVE QuickInv'
    <2>1. /\ issued < MaxRefs /\ issued' = issued + 1 /\ pending' = pending \cup {issued'}
          /\ UNCHANGED <<call, transfers, served>>
      BY <1>6 DEF http402!FetchData, http402!Challenge
    <2>2. \A r : PaidBy(transfers', r) = PaidBy(transfers, r)
      BY <2>1 DEF PaidBy
    <2>3. QuickTyped'
      BY <1>1, <2>1 DEF QuickInv, QuickTyped
    <2>4. PaidFirst'
      BY <1>1, <2>1, <2>2 DEF QuickInv, QuickTyped, PaidFirst, Call, References, http402!References
    <2> QED BY <2>3, <2>4 DEF QuickInv
  <1>7. ASSUME NEW b \in Buyers, http402!Finish(b) PROVE QuickInv'
    BY <1>7 DEF http402!Finish, QuickInv, QuickTyped, PaidFirst
  <1>8. ASSUME NEW b \in Buyers, NEW to \in {Seller, Stranger}, NEW amount \in http402!Amounts,
               NEW ref \in 0 .. issued,
               http402!PayAndRetry(b, to, amount, ref) \/ http402!Refused(b, to, amount, ref)
        PROVE  QuickInv'
    <2>1. b \in Clients
      BY DEF Clients, http402!Clients
    <2>2. UNCHANGED <<pending, issued, served>> /\ transfers \subseteq transfers'
      BY <1>8 DEF http402!PayAndRetry, http402!Refused, http402!Transfer, http402!TransferThrows
    <2>3. http402!Arrives(b, 0) \/ http402!Arrives(b, ref) \/ UNCHANGED call
      BY <1>8 DEF http402!PayAndRetry, http402!Refused
    <2> QED BY <2>1, <2>2, <2>3, BuyersKeepQuick DEF QuickInv, QuickTyped
  <1> QED BY <1>2, <1>3, <1>4, <1>5, <1>6, <1>7, <1>8 DEF http402!QuickNext, Clients

LEMMA QuickPreserved == ASSUME StarterKitAssumption, QuickInv, [Next]_vars PROVE QuickInv'
  <1>1. CASE Quickstart
    BY <1>1, QuickstartStep DEF Quickstart
  <1>2. CASE UNCHANGED quickVars
    BY <1>2 DEF quickVars, QuickInv, QuickTyped, PaidFirst
  <1> QED BY <1>1, <1>2 DEF Next, Broker, Bridge, Market, vars

\* What the quickstart server delivers has been paid under its reference, for
\* any number of clients, references and turns and with any budget.
THEOREM QuickstartServesThePaid == Spec => []ServedIsPaid
  <1>1. QuickInv => ServedIsPaid
    BY DEF QuickInv, QuickTyped, PaidFirst, PaidBy, ServedIsPaid, http402!ServedIsPaid, References,
       Clients, Call
  <1>2. Init => QuickInv
    BY QuickInitial, StarterKitAssumption
  <1>3. QuickInv /\ [Next]_vars => QuickInv'
    BY QuickPreserved, StarterKitAssumption
  <1> QED BY <1>1, <1>2, <1>3, PTL DEF Spec

-----------------------------------------------------------------------------
(***************************************************************************)
(* The purse of a guarded buyer.                                           *)
(***************************************************************************)
Mine(ts, b) == {t \in ts : t.from = b}
Total(S) == SumFunctionOnSet([t \in S |-> t.amount], S)

Payment == [ref : Nat, amount : Nat, to : {Seller, Stranger}, from : Buyers, n : Nat]
BuyerRecord == [on : BOOLEAN, guarded : BOOLEAN, turns : Nat, recipients : SUBSET {Seller},
                seen : SUBSET Nat, spent : Nat]

\* What a guarded buyer has on the chain is what it was told to spend; while
\* it runs, it has counted all of it, and each transfer has a turn of its own.
Guarded(b) ==
  buyer[b].guarded =>
    /\ \A t \in Mine(transfers, b) : t.to = Seller /\ t.ref \in buyer[b].seen \cup {0}
    /\ Total(Mine(transfers, b)) <= Budget
    /\ buyer[b].on => /\ Total(Mine(transfers, b)) <= buyer[b].spent
                      /\ \A t \in Mine(transfers, b) : t.n < buyer[b].turns

PurseInv ==
  /\ buyer \in [Buyers -> BuyerRecord]
  /\ transfers \subseteq Payment /\ IsFiniteSet(transfers)
  /\ \A b \in Buyers : Guarded(b)

LEMMA FieldsTyped ==
  ASSUME NEW q \in BuyerRecord
  PROVE  /\ q.turns \in Nat /\ q.spent \in Nat /\ q.seen \subseteq Nat /\ q.recipients \subseteq {Seller}
         /\ [q EXCEPT !.on = FALSE] \in BuyerRecord
         /\ \A n \in Nat : [q EXCEPT !.turns = n] \in BuyerRecord
         /\ \A n \in Nat : [q EXCEPT !.spent = n] \in BuyerRecord
         /\ \A s \in SUBSET Nat : [q EXCEPT !.seen = s] \in BuyerRecord
         /\ \A r \in SUBSET {Seller} : [q EXCEPT !.recipients = r] \in BuyerRecord
  <1>1. q.turns \in Nat /\ q.spent \in Nat /\ q.seen \subseteq Nat /\ q.recipients \subseteq {Seller}
    BY DEF BuyerRecord
  <1>2. [q EXCEPT !.on = FALSE] \in BuyerRecord
    BY DEF BuyerRecord
  <1>3. \A n \in Nat : [q EXCEPT !.turns = n] \in BuyerRecord
    BY DEF BuyerRecord
  <1>4. \A n \in Nat : [q EXCEPT !.spent = n] \in BuyerRecord
    BY DEF BuyerRecord
  <1>5. \A s \in SUBSET Nat : [q EXCEPT !.seen = s] \in BuyerRecord
    BY DEF BuyerRecord
  <1>6. \A r \in SUBSET {Seller} : [q EXCEPT !.recipients = r] \in BuyerRecord
    BY DEF BuyerRecord
  <1> QED BY <1>1, <1>2, <1>3, <1>4, <1>5, <1>6

LEMMA NewTyped ==
  ASSUME NEW p \in http402!NewBuyers
  PROVE  p \in BuyerRecord /\ p.spent = 0
  <1>1. p.spent = 0 /\ p.turns = 0 /\ p.recipients = {} /\ p.seen = {} /\ p.on \in BOOLEAN /\ p.guarded \in BOOLEAN
    BY DEF http402!NewBuyers
  <1>2. p = [on |-> p.on, guarded |-> p.guarded, turns |-> p.turns, recipients |-> p.recipients,
             seen |-> p.seen, spent |-> p.spent]
    BY DEF http402!NewBuyers
  <1>3. p \in BuyerRecord
    BY <1>1, <1>2 DEF BuyerRecord
  <1> QED BY <1>1, <1>3

AmountSums(g, S) ==
  g = [s \in SUBSET S |-> IF s = {} THEN 0 ELSE One(s).amount + g[s \ {One(s)}]]

\* The fold of the model is that sum.
LEMMA AmountsSum ==
  ASSUME NEW S, IsFiniteSet(S)
  PROVE  http402!MapThenSumSet(LAMBDA t : t.amount, S) = Total(S)
  <1>1. http402!MapThenSumSet(LAMBDA t : t.amount, S) = (CHOOSE g : AmountSums(g, S))[S]
    BY DEF http402!MapThenSumSet, http402!MapThenFoldSet, AmountSums, One
  <1>2. PICK f : f = [t \in S |-> t.amount]
    OBVIOUS
  <1>3. \A s \in SUBSET S : s # {} => One(s) \in S /\ f[One(s)] = One(s).amount
    BY <1>2 DEF One
  <1>4. \A g : AmountSums(g, S) <=> Sums(g, f, S)
    BY <1>3 DEF AmountSums, Sums
  <1>5. \E g : AmountSums(g, S)
    BY <1>4, SumsExist
  <1>6. PICK g : g = CHOOSE h : AmountSums(h, S)
    OBVIOUS
  <1>7. Sums(g, f, S)
    BY <1>4, <1>5, <1>6
  <1>8. PICK h : Sums(h, f, S) /\ SumFunctionOnSet(f, S) = h[S]
    BY SumIs
  <1>9. g[S] = h[S]
    BY <1>7, <1>8, SumsAgree
  <1> QED BY <1>1, <1>2, <1>6, <1>8, <1>9 DEF Total

LEMMA TotalOfNone == Total({}) = 0
  BY SumZero, FS_EmptySet DEF Total

LEMMA TotalWith ==
  ASSUME NEW S, IsFiniteSet(S), S \subseteq Payment, NEW x \in Payment, x \notin S
  PROVE  Total(S \cup {x}) = Total(S) + x.amount /\ Total(S) \in Int
  <1>1. PICK f : f = [t \in S \cup {x} |-> t.amount]
    OBVIOUS
  <1>2. PICK e : e = [t \in S |-> t.amount]
    OBVIOUS
  <1>3. (\A t \in S \cup {x} : f[t] \in Int) /\ (\A t \in S : e[t] = f[t]) /\ f[x] = x.amount
    BY <1>1, <1>2 DEF Payment
  <1>4. SumFunctionOnSet(f, S \cup {x}) = SumFunctionOnSet(f, S) + f[x]
    BY <1>3, SumWith
  <1>5. SumFunctionOnSet(f, S) = SumFunctionOnSet(e, S) /\ SumFunctionOnSet(f, S) \in Int
    BY <1>3, SumSame, SumSplit
  <1> QED BY <1>1, <1>2, <1>3, <1>4, <1>5 DEF Total

\* The purse of a buyer that the step leaves alone.
LEMMA OtherPurse ==
  ASSUME NEW b, Guarded(b), buyer'[b] = buyer[b], Mine(transfers', b) = Mine(transfers, b)
  PROVE  Guarded(b)'
  BY DEF Guarded

LEMMA QuickNumbers == StarterKitAssumption => {Price, Budget, MaxTurns, MaxRefs} \subseteq Nat
  BY DEF StarterKitAssumption, http402!QuickstartAssumption

LEMMA PurseInitial == ASSUME StarterKitAssumption, Init PROVE PurseInv
  <1>1. buyer \in [Buyers -> http402!NewBuyers] /\ transfers = {}
    BY DEF Init, http402!QuickInit
  <1>2. http402!NewBuyers \subseteq BuyerRecord /\ \A p \in http402!NewBuyers : p.spent = 0
    BY NewTyped
  <1>3. \A b \in Buyers : Mine(transfers, b) = {}
    BY <1>1 DEF Mine
  <1>4. \A b \in Buyers : Guarded(b)
    BY <1>1, <1>2, <1>3, TotalOfNone, QuickNumbers DEF Guarded
  <1> QED BY <1>1, <1>2, <1>4, FS_EmptySet DEF PurseInv

\* A turn that sends nothing: the buyer learns, waits or ends.
LEMMA NothingSent ==
  ASSUME PurseInv, NEW b \in Buyers, NEW p \in BuyerRecord, UNCHANGED transfers,
         buyer' = [buyer EXCEPT ![b] = p],
         /\ p.guarded = buyer[b].guarded /\ buyer[b].seen \subseteq p.seen
         /\ p.spent = buyer[b].spent /\ buyer[b].turns <= p.turns
         /\ p.on => buyer[b].on
  PROVE  PurseInv'
  <1>1. buyer' \in [Buyers -> BuyerRecord] /\ buyer'[b] = p /\ \A a \in Buyers \ {b} : buyer'[a] = buyer[a]
    BY DEF PurseInv
  <1>2. \A a \in Buyers : Mine(transfers', a) = Mine(transfers, a)
    BY DEF Mine
  <1>3. Mine(transfers, b) \subseteq Payment /\ buyer[b] \in BuyerRecord
    BY DEF PurseInv, Mine
  <1>4. Guarded(b)'
    <2>1. buyer[b].turns \in Nat /\ p.turns \in Nat /\ \A t \in Mine(transfers, b) : t.n \in Nat
      BY <1>3 DEF BuyerRecord, Payment
    <2>2. ASSUME p.guarded
          PROVE  /\ \A t \in Mine(transfers, b) : t.to = Seller /\ t.ref \in p.seen \cup {0}
                 /\ Total(Mine(transfers, b)) <= Budget
                 /\ p.on => /\ Total(Mine(transfers, b)) <= p.spent
                            /\ \A t \in Mine(transfers, b) : t.n < p.turns
      <3>1. Guarded(b) /\ buyer[b].guarded
        BY <2>2 DEF PurseInv
      <3>2. p.on => \A t \in Mine(transfers, b) : t.n < p.turns
        BY <2>1, <3>1 DEF Guarded
      <3> QED BY <3>1, <3>2 DEF Guarded
    <2> QED BY <1>1, <1>2, <2>2 DEF Guarded
  <1> QED BY <1>1, <1>2, <1>4, OtherPurse DEF PurseInv

\* A turn that sends a payment, whatever becomes of the loop.
LEMMA PaymentSent ==
  ASSUME StarterKitAssumption, PurseInv, NEW b \in Buyers, NEW to \in {Seller, Stranger}, NEW amount \in Nat,
         NEW ref \in Nat, http402!Thinks(b), http402!MayPay(b, to, amount, ref),
         http402!Transfer(b, to, amount, ref), NEW p \in BuyerRecord,
         buyer' = [buyer EXCEPT ![b] = p],
         /\ p.guarded = buyer[b].guarded /\ p.seen = buyer[b].seen
         /\ p.on => p.spent = buyer[b].spent + amount /\ p.turns = buyer[b].turns + 1
  PROVE  PurseInv'
  <1>1. buyer' \in [Buyers -> BuyerRecord] /\ buyer'[b] = p /\ \A a \in Buyers \ {b} : buyer'[a] = buyer[a]
    BY DEF PurseInv
  <1>2. PICK t : t = [ref |-> ref, amount |-> amount, to |-> to, from |-> b, n |-> buyer[b].turns]
    OBVIOUS
  <1>3. buyer[b] \in BuyerRecord /\ buyer[b].turns \in Nat /\ buyer[b].spent \in Nat
    BY DEF PurseInv, BuyerRecord
  <1>4. /\ t \in Payment /\ transfers' = transfers \cup {t}
        /\ t.amount = amount /\ t.to = to /\ t.ref = ref /\ t.from = b /\ t.n = buyer[b].turns
    BY <1>2, <1>3 DEF Payment, http402!Transfer
  <1>5. transfers' \subseteq Payment /\ IsFiniteSet(transfers')
    BY <1>4, FS_AddElement DEF PurseInv
  <1>6. /\ Mine(transfers', b) = Mine(transfers, b) \cup {t}
        /\ \A a \in Buyers \ {b} : Mine(transfers', a) = Mine(transfers, a)
    BY <1>4 DEF Mine
  <1>7. Guarded(b)'
    <2>1. ASSUME buyer[b].guarded PROVE Guarded(b)'
      <3>1. /\ to \in buyer[b].recipients /\ (ref = 0 \/ ref \in buyer[b].seen)
            /\ buyer[b].spent + amount <= Budget /\ buyer[b].on
        BY <2>1 DEF http402!MayPay, http402!guardPayment, http402!Thinks
      <3>2. to = Seller
        BY <1>3, <3>1 DEF BuyerRecord
      <3>3. Mine(transfers, b) \subseteq Payment /\ IsFiniteSet(Mine(transfers, b))
        BY FS_Subset DEF PurseInv, Mine
      <3>4. /\ \A s \in Mine(transfers, b) : s.n < buyer[b].turns /\ s.to = Seller /\ s.ref \in buyer[b].seen \cup {0}
            /\ Total(Mine(transfers, b)) <= buyer[b].spent
        BY <2>1, <3>1 DEF PurseInv, Guarded
      <3>5. t \notin Mine(transfers, b)
        BY <1>3, <1>4, <3>4
      <3>6. Total(Mine(transfers', b)) = Total(Mine(transfers, b)) + amount /\ Total(Mine(transfers, b)) \in Int
        BY <1>4, <1>6, <3>3, <3>5, TotalWith
      <3>7. Total(Mine(transfers', b)) <= buyer[b].spent + amount
        BY <1>3, <3>4, <3>6
      <3>8. Total(Mine(transfers', b)) <= Budget
        BY <1>3, <3>1, <3>6, <3>7, QuickNumbers
      <3>9. \A s \in Mine(transfers', b) : s.to = Seller /\ s.ref \in p.seen \cup {0}
        BY <1>4, <1>6, <3>1, <3>2, <3>4
      <3>10. p.on => \A s \in Mine(transfers', b) : s.n < p.turns
        <4>1. \A s \in Mine(transfers, b) : s.n \in Nat
          BY <3>3 DEF Payment
        <4>2. ASSUME p.on, NEW s \in Mine(transfers', b) PROVE s.n < p.turns
          <5>1. p.turns = buyer[b].turns + 1
            BY <4>2
          <5>2. s = t \/ s \in Mine(transfers, b)
            BY <1>6, <4>2
          <5> QED BY <1>3, <1>4, <3>4, <4>1, <5>1, <5>2
        <4> QED BY <4>2
      <3> QED BY <1>1, <3>7, <3>8, <3>9, <3>10 DEF Guarded
    <2> QED BY <1>1, <2>1 DEF Guarded
  <1> QED BY <1>1, <1>5, <1>6, <1>7, OtherPurse DEF PurseInv

\* The loop of a buyer ends.
LEMMA Ends ==
  ASSUME PurseInv, NEW b \in Buyers, NEW p, p = [buyer[b] EXCEPT !.on = FALSE]
  PROVE  /\ p \in BuyerRecord /\ p.guarded = buyer[b].guarded /\ p.seen = buyer[b].seen
         /\ p.spent = buyer[b].spent /\ buyer[b].turns <= p.turns /\ ~ p.on
  <1>1. buyer[b] \in BuyerRecord /\ buyer[b].turns \in Nat /\ p \in BuyerRecord
    BY FieldsTyped DEF PurseInv
  <1>2. p.guarded = buyer[b].guarded /\ p.seen = buyer[b].seen /\ p.spent = buyer[b].spent
        /\ p.turns = buyer[b].turns /\ ~ p.on
    BY <1>1 DEF BuyerRecord
  <1> QED BY <1>1, <1>2

LEMMA PurseStep == ASSUME StarterKitAssumption, QuickInv, PurseInv, http402!QuickNext PROVE PurseInv'
  <1>0. {Price, Budget, MaxTurns, MaxRefs} \subseteq Nat /\ issued \in Nat
    BY QuickNumbers DEF QuickInv, QuickTyped
  <1>1. ASSUME UNCHANGED <<buyer, transfers>> PROVE PurseInv'
    BY <1>1 DEF PurseInv, Guarded
  <1>2. ASSUME http402!ServerRestarts PROVE PurseInv'
    <2>1. UNCHANGED transfers
      BY <1>2 DEF http402!ServerRestarts
    <2>2. /\ buyer' \in [Buyers -> BuyerRecord]
          /\ \A b \in Buyers : /\ buyer'[b].guarded = buyer[b].guarded /\ buyer'[b].seen = buyer[b].seen
                               /\ buyer'[b].on => buyer'[b] = buyer[b]
      <3>1. ASSUME NEW b \in Buyers
            PROVE  /\ buyer'[b] \in BuyerRecord
                   /\ buyer'[b].guarded = buyer[b].guarded /\ buyer'[b].seen = buyer[b].seen
                   /\ buyer'[b].on => buyer'[b] = buyer[b]
        <4>1. buyer'[b] = [buyer[b] EXCEPT !.on = FALSE] \/ buyer'[b] = buyer[b]
          BY <1>2 DEF http402!ServerRestarts
        <4> QED BY <4>1 DEF PurseInv, BuyerRecord
      <3>2. DOMAIN buyer' = Buyers /\ buyer' = [b \in Buyers |-> buyer'[b]]
        BY <1>2 DEF http402!ServerRestarts
      <3> QED BY <3>1, <3>2
    <2>3. \A b \in Buyers : Guarded(b)'
      BY <2>1, <2>2 DEF PurseInv, Guarded
    <2> QED BY <2>1, <2>2, <2>3 DEF PurseInv
  <1>3. ASSUME NEW b \in Buyers, http402!FetchData(b) PROVE PurseInv'
    <2>1. PICK p : p = [buyer[b] EXCEPT !.turns = @ + 1, !.recipients = @ \cup {Seller}, !.seen = @ \cup {issued'}]
      OBVIOUS
    <2>2. /\ buyer' = [buyer EXCEPT ![b] = p] /\ UNCHANGED transfers /\ issued' \in Nat
          /\ buyer[b] \in BuyerRecord
      <3>1. issued' = issued + 1 /\ UNCHANGED transfers
        BY <1>3 DEF http402!FetchData, http402!Challenge
      <3>2. buyer' = [buyer EXCEPT ![b].turns = @ + 1, ![b].recipients = @ \cup {Seller},
                                   ![b].seen = @ \cup {issued'}]
        BY <1>3 DEF http402!FetchData, http402!Challenge
      <3>3. DOMAIN buyer = Buyers
        BY DEF PurseInv
      <3>4. buyer' = [buyer EXCEPT ![b] = p]
        BY <2>1, <3>2, <3>3
      <3> QED BY <1>0, <3>1, <3>4 DEF PurseInv
    <2>3. p \in BuyerRecord
      <3>1. PICK p1 : p1 = [buyer[b] EXCEPT !.turns = @ + 1]
        OBVIOUS
      <3>2. p1 \in BuyerRecord /\ p1.recipients = buyer[b].recipients /\ p1.seen = buyer[b].seen
        BY <2>2, <3>1, FieldsTyped DEF BuyerRecord
      <3>3. PICK p2 : p2 = [p1 EXCEPT !.recipients = @ \cup {Seller}]
        OBVIOUS
      <3>4. p2 \in BuyerRecord /\ p2.seen = buyer[b].seen
        BY <3>2, <3>3, FieldsTyped DEF BuyerRecord
      <3>5. p = [p2 EXCEPT !.seen = @ \cup {issued'}]
        BY <2>1, <2>2, <3>1, <3>3 DEF BuyerRecord
      <3> QED BY <2>2, <3>4, <3>5, FieldsTyped
    <2>4. /\ p.guarded = buyer[b].guarded /\ buyer[b].seen \subseteq p.seen
          /\ p.spent = buyer[b].spent /\ p.on = buyer[b].on /\ p.turns = buyer[b].turns + 1
      BY <2>1, <2>2 DEF BuyerRecord
    <2>5. buyer[b].turns <= p.turns
      <3>1. buyer[b].turns \in Nat
        BY <2>2 DEF BuyerRecord
      <3> QED BY <2>4, <3>1
    <2> QED BY <2>2, <2>3, <2>4, <2>5, NothingSent
  <1>4. ASSUME NEW b \in Buyers, http402!Finish(b) PROVE PurseInv'
    <2>1. PICK p : p = [buyer[b] EXCEPT !.on = FALSE]
      OBVIOUS
    <2>2. buyer' = [buyer EXCEPT ![b] = p] /\ UNCHANGED transfers
      BY <1>4, <2>1 DEF http402!Finish
    <2>3. /\ p \in BuyerRecord /\ p.guarded = buyer[b].guarded /\ buyer[b].seen \subseteq p.seen
          /\ p.spent = buyer[b].spent /\ buyer[b].turns <= p.turns /\ ~ p.on
      BY <2>1, Ends
    <2> QED BY <2>2, <2>3, NothingSent
  <1>5. ASSUME NEW b \in Buyers, NEW to \in {Seller, Stranger}, NEW amount \in http402!Amounts,
               NEW ref \in 0 .. issued, http402!Refused(b, to, amount, ref)
        PROVE  PurseInv'
    <2>1. PICK p : p = [buyer[b] EXCEPT !.turns = @ + 1]
      OBVIOUS
    <2>2. buyer' = [buyer EXCEPT ![b] = p] /\ UNCHANGED transfers
      BY <1>5, <2>1 DEF http402!Refused
    <2>3. buyer[b] \in BuyerRecord /\ buyer[b].turns \in Nat /\ p \in BuyerRecord
      <3>1. buyer[b] \in BuyerRecord
        BY DEF PurseInv
      <3>2. buyer[b].turns \in Nat
        BY <3>1 DEF BuyerRecord
      <3>3. PICK n : n = buyer[b].turns + 1
        OBVIOUS
      <3>4. n \in Nat /\ p = [buyer[b] EXCEPT !.turns = n]
        BY <2>1, <3>1, <3>2, <3>3
      <3> QED BY <3>1, <3>2, <3>4, FieldsTyped
    <2>4. /\ p.guarded = buyer[b].guarded /\ p.seen = buyer[b].seen
          /\ p.spent = buyer[b].spent /\ p.on = buyer[b].on /\ p.turns = buyer[b].turns + 1
      BY <2>1, <2>3 DEF BuyerRecord
    <2>5. buyer[b].turns <= p.turns
      BY <2>3, <2>4
    <2> QED BY <2>2, <2>3, <2>4, <2>5, NothingSent
  <1>6. ASSUME NEW b \in Buyers, NEW to \in {Seller, Stranger}, NEW amount \in http402!Amounts,
               NEW ref \in 0 .. issued, http402!PayAndRetry(b, to, amount, ref)
        PROVE  PurseInv'
    <2>1. amount \in Nat /\ ref \in Nat /\ http402!Thinks(b) /\ http402!MayPay(b, to, amount, ref)
      BY <1>0, <1>6 DEF http402!Amounts, http402!PayAndRetry
    <2>2. CASE http402!Transfer(b, to, amount, ref) /\ buyer' = [buyer EXCEPT ![b].turns = @ + 1, ![b].spent = @ + amount]
      <3>1. PICK p : p = [buyer[b] EXCEPT !.turns = @ + 1, !.spent = @ + amount]
        OBVIOUS
      <3>2. buyer' = [buyer EXCEPT ![b] = p]
        BY <2>2, <3>1 DEF PurseInv
      <3>3. /\ p \in BuyerRecord /\ p.guarded = buyer[b].guarded /\ p.seen = buyer[b].seen
            /\ p.spent = buyer[b].spent + amount /\ p.turns = buyer[b].turns + 1
        <4>1. PICK p1 : p1 = [buyer[b] EXCEPT !.turns = @ + 1]
          OBVIOUS
        <4>2. buyer[b] \in BuyerRecord /\ buyer[b].turns \in Nat /\ buyer[b].spent \in Nat
          BY FieldsTyped DEF PurseInv
        <4>3. p1 \in BuyerRecord /\ p1.spent = buyer[b].spent
          BY <4>1, <4>2, FieldsTyped DEF BuyerRecord
        <4>4. PICK m : m = buyer[b].spent + amount
          OBVIOUS
        <4>5. m \in Nat /\ p = [p1 EXCEPT !.spent = m]
          BY <2>1, <3>1, <4>1, <4>2, <4>4 DEF BuyerRecord
        <4>6. p \in BuyerRecord
          BY <4>3, <4>5, FieldsTyped
        <4> QED BY <3>1, <4>2, <4>6 DEF BuyerRecord
      <3>4. p.on => p.spent = buyer[b].spent + amount /\ p.turns = buyer[b].turns + 1
        BY <3>3
      <3>5. http402!Transfer(b, to, amount, ref)
        BY <2>2
      <3> QED BY <2>1, <3>2, <3>3, <3>4, <3>5, PaymentSent
    <2>3. CASE http402!TransferThrows(b, to, amount, ref)
      <3>1. PICK p : p = [buyer[b] EXCEPT !.on = FALSE]
        OBVIOUS
      <3>2. buyer' = [buyer EXCEPT ![b] = p] /\ (http402!Transfer(b, to, amount, ref) \/ UNCHANGED transfers)
        BY <2>3, <3>1 DEF http402!TransferThrows
      <3>3. /\ p \in BuyerRecord /\ p.guarded = buyer[b].guarded /\ p.seen = buyer[b].seen
            /\ p.spent = buyer[b].spent /\ buyer[b].turns <= p.turns /\ ~ p.on
        BY <3>1, Ends
      <3>4. CASE http402!Transfer(b, to, amount, ref)
        BY <2>1, <3>2, <3>3, <3>4, PaymentSent
      <3>5. CASE UNCHANGED transfers
        BY <3>2, <3>3, <3>5, NothingSent
      <3> QED BY <3>2, <3>4, <3>5
    <2> QED BY <1>6, <2>2, <2>3 DEF http402!PayAndRetry
  <1>7. \A c : http402!Verify(c) \/ http402!deliverData(c) \/ http402!Present(c) => UNCHANGED <<buyer, transfers>>
    BY DEF http402!Verify, http402!deliverData, http402!Present
  <1> QED BY <1>1, <1>2, <1>3, <1>4, <1>5, <1>6, <1>7 DEF http402!QuickNext

LEMMA PursePreserved == ASSUME StarterKitAssumption, QuickInv, PurseInv, [Next]_vars PROVE PurseInv'
  <1>1. CASE Quickstart
    BY <1>1, PurseStep DEF Quickstart
  <1>2. CASE UNCHANGED quickVars
    BY <1>2 DEF quickVars, PurseInv, Guarded
  <1> QED BY <1>1, <1>2 DEF Next, Broker, Bridge, Market, vars

\* A guarded buyer has no more than its budget on the chain, over all of its
\* calls, and pays only wallets and references of a challenge, for any number
\* of buyers, turns and challenges and with any budget.
THEOREM GuardHoldsTheBudget == Spec => []GuardedSpend
  <1>1. Init => QuickInv /\ PurseInv
    BY QuickInitial, PurseInitial, StarterKitAssumption
  <1>2. QuickInv /\ PurseInv /\ [Next]_vars => QuickInv' /\ PurseInv'
    BY QuickPreserved, PursePreserved, StarterKitAssumption
  <1>3. ASSUME PurseInv PROVE GuardedSpend
    <2>1. \A b \in Buyers : IsFiniteSet(Mine(transfers, b))
      BY <1>3, FS_Subset DEF PurseInv, Mine
    <2>2. \A b \in Buyers : http402!MapThenSumSet(LAMBDA t : t.amount, Mine(transfers, b)) = Total(Mine(transfers, b))
      BY <2>1, AmountsSum
    <2> QED BY <1>3, <2>2 DEF GuardedSpend, http402!GuardedSpend, PurseInv, Guarded, Mine
  <1> QED BY <1>1, <1>2, <1>3, PTL DEF Spec

-----------------------------------------------------------------------------
Orders == checkout!Orders
NoHttp == checkout!NoHttp
NoOrder == checkout!NoOrder
Http == [pc : {"none", "session", "inject", "quote", "deliver", "start"},
         order : 0 .. made.threads, front : Fronts \cup {"none"}]
Held == [order : 0 .. made.threads, paid : BOOLEAN]
Stage == {"none", "asked", "quoted", "proven", "delivered"}

Names(h) == h.pc \in {"quote", "inject", "deliver"} => h.order > 0

\* The shape of the bridge's state: no order is named before its thread.
BridgeTyped ==
  /\ made \in [threads : 0 .. MaxThreads, sessions : Nat, restarts : Nat]
  /\ http \in [Tabs -> Http] /\ tab \in [Tabs -> Held]
  /\ thread \in [Orders -> Stage] /\ running \in [Fronts -> Nat]
  /\ \A t \in Tabs : Names(http[t]) /\ (tab[t].paid => tab[t].order > 0)

\* An order that a tab holds is known or delivered, so it is so when it is paid.
HeldIsKept ==
  \A t \in Tabs : tab[t].order > 0 =>
    tab[t].order \in orders \/ thread[tab[t].order] = "delivered"

Starts(t) == http[t].pc = "start"
Running == {f \in Fronts : running[f] > 0}

\* The starts that are out are of different fronts that do not run yet.
OneStartEach ==
  /\ \A t \in Tabs : Starts(t) => http[t].front \in Fronts /\ running[http[t].front] = 0
  /\ \A t, u \in Tabs : Starts(t) /\ Starts(u) /\ t # u => http[t].front # http[u].front
  /\ made.sessions <= Cardinality(Running)

BridgeInv ==
  /\ BridgeTyped
  /\ made.restarts = 0 => HeldIsKept /\ (~ overlap => OneStartEach)

\* The module of finite sets is the same one from either side.
LEMMA SameSets ==
  \A S : checkout!IsFiniteSet(S) = IsFiniteSet(S) /\ checkout!Cardinality(S) = Cardinality(S)
  <1>1. \A S : checkout!IsFiniteSet(S) = IsFiniteSet(S)
    BY DEF checkout!IsFiniteSet, IsFiniteSet
  <1>2. \A S : checkout!Cardinality(S) = Cardinality(S)
    BY DEF checkout!Cardinality, Cardinality
  <1> QED BY <1>1, <1>2

LEMMA BridgeInitial == ASSUME StarterKitAssumption, Init PROVE BridgeInv
  <1>1. MaxThreads \in Nat
    BY DEF StarterKitAssumption, checkout!BridgeAssumption
  <1>2. /\ running = [f \in Fronts |-> 0] /\ http = [t \in Tabs |-> NoHttp]
        /\ tab = [t \in Tabs |-> NoOrder] /\ thread = [o \in Orders |-> "none"]
        /\ made = [threads |-> 0, sessions |-> 0, restarts |-> 0]
    BY DEF Init, checkout!BridgeInit, NoHttp, NoOrder, Orders
  <1>3. NoHttp \in Http /\ NoOrder \in Held
    BY <1>2 DEF NoHttp, NoOrder, checkout!NoHttp, checkout!NoOrder, Http, Held
  <1>4. BridgeTyped
    BY <1>1, <1>2, <1>3 DEF BridgeTyped, Stage, Names, NoHttp, checkout!NoHttp, NoOrder, checkout!NoOrder
  <1>5. HeldIsKept
    BY <1>2 DEF HeldIsKept, NoOrder, checkout!NoOrder
  <1>6. OneStartEach
    <2>1. Running = {}
      BY <1>2 DEF Running
    <2>2. Cardinality(Running) = 0
      BY <2>1, FS_EmptySet
    <2> QED BY <1>2, <2>2 DEF OneStartEach, Starts, NoHttp, checkout!NoHttp
  <1> QED BY <1>4, <1>5, <1>6 DEF BridgeInv

\* A step that leaves the fronts alone and starts nothing.
LEMMA NoStartKeepsFronts ==
  ASSUME OneStartEach, UNCHANGED running, made'.sessions = made.sessions,
         \A t \in Tabs : Starts(t)' => Starts(t) /\ http'[t].front = http[t].front
  PROVE  OneStartEach'
  BY DEF OneStartEach, Running

\* Where a request may go from here, or that it is answered.
LEMMA HttpTyped ==
  ASSUME BridgeTyped
  PROVE  /\ NoHttp \in Http /\ NoOrder \in Held
         /\ \A h \in Http : \A p \in {"session", "inject", "deliver"} : [h EXCEPT !.pc = p] \in Http
  <1>1. made.threads \in Nat /\ 0 \in 0 .. made.threads
    BY DEF BridgeTyped
  <1>2. NoHttp \in Http
    BY <1>1 DEF NoHttp, checkout!NoHttp, Http
  <1>3. NoOrder \in Held
    BY <1>1 DEF NoOrder, checkout!NoOrder, Held
  <1>4. \A h \in Http : \A p \in {"session", "inject", "deliver"} : [h EXCEPT !.pc = p] \in Http
    BY DEF Http
  <1> QED BY <1>2, <1>3, <1>4

\* What the requests do that neither hold an order nor start a front.
LEMMA RequestsKeepBridge ==
  ASSUME StarterKitAssumption, BridgeInv, NEW t \in Tabs,
         UNCHANGED <<running, made, overlap>>,
         orders \subseteq orders',
         \A o \in Orders : thread[o] = "delivered" => thread'[o] = "delivered",
         thread' \in [Orders -> Stage],
         tab' = tab \/ tab' = [tab EXCEPT ![t] = NoOrder],
         http' \in [Tabs -> Http], \A u \in Tabs : Names(http'[u]),
         \A u \in Tabs : http'[u].pc = "start" => http'[u] = http[u]
  PROVE  BridgeInv'
  <1>1. BridgeTyped /\ MaxThreads \in Nat
    BY DEF BridgeInv, StarterKitAssumption, checkout!BridgeAssumption
  <1>2. Http' = Http /\ Held' = Held
    BY DEF Http, Held
  <1>3. BridgeTyped'
    <2>1. tab' \in [Tabs -> Held]
      BY <1>1, HttpTyped DEF BridgeTyped
    <2>2. \A u \in Tabs : tab'[u].paid => tab'[u].order > 0
      BY <1>1 DEF BridgeTyped, NoOrder, checkout!NoOrder
    <2>3. \A u \in Tabs : Names(http[u])'
      BY DEF Names
    <2> QED BY <1>1, <1>2, <2>1, <2>2, <2>3 DEF BridgeTyped
  <1>4. ASSUME made.restarts = 0 PROVE HeldIsKept'
    <2>1. HeldIsKept
      BY <1>4 DEF BridgeInv
    <2>2. \A u \in Tabs : tab'[u] = tab[u] \/ tab'[u] = NoOrder
      BY <1>1 DEF BridgeTyped
    <2>3. \A u \in Tabs : tab[u].order > 0 => tab[u].order \in Orders
      BY <1>1 DEF BridgeTyped, Held, Orders, checkout!Orders
    <2> QED BY <2>1, <2>2, <2>3 DEF HeldIsKept, NoOrder, checkout!NoOrder
  <1>5. ASSUME made.restarts = 0, ~ overlap PROVE OneStartEach'
    BY <1>5, NoStartKeepsFronts DEF BridgeInv, Starts
  <1> QED BY <1>3, <1>4, <1>5 DEF BridgeInv

LEMMA BridgeStep ==
  ASSUME StarterKitAssumption, BridgeInv, checkout!BridgeNext
  PROVE  BridgeInv'
  <1>1. BridgeTyped /\ MaxThreads \in Nat /\ IsFiniteSet(Fronts)
    BY SameSets DEF BridgeInv, StarterKitAssumption, checkout!BridgeAssumption
  <1>2. /\ http \in [Tabs -> Http] /\ tab \in [Tabs -> Held] /\ thread \in [Orders -> Stage]
        /\ running \in [Fronts -> Nat]
        /\ made \in [threads : 0 .. MaxThreads, sessions : Nat, restarts : Nat]
        /\ NoHttp \in Http
    BY <1>1, HttpTyped DEF BridgeTyped
  <1>3. ASSUME UNCHANGED <<orders, running, tab, thread, made, overlap>>,
               UNCHANGED http \/ checkout!FailAwaiting
        PROVE  BridgeInv'
    <2>1. CASE UNCHANGED http
      BY <1>3, <2>1 DEF BridgeInv, BridgeTyped, Names, Http, Held, HeldIsKept, OneStartEach, Starts, Running
    <2>2. CASE checkout!FailAwaiting
      <3>1. http' \in [Tabs -> Http] /\ \A u \in Tabs : http'[u] = http[u] \/ http'[u] = NoHttp
        BY <1>2, <2>2 DEF checkout!FailAwaiting, NoHttp
      <3>2. \A u \in Tabs : http'[u].pc = "start" => http'[u] = http[u]
        BY <3>1 DEF NoHttp, checkout!NoHttp
      <3>3. \A u \in Tabs : Starts(u)' => Starts(u) /\ http'[u].front = http[u].front
        BY <3>2 DEF Starts
      <3>4. BridgeTyped'
        BY <1>1, <1>3, <3>1 DEF BridgeTyped, Http, Held, Names, NoHttp, checkout!NoHttp
      <3>5. HeldIsKept => HeldIsKept'
        BY <1>3 DEF HeldIsKept
      <3> QED BY <1>3, <3>3, <3>4, <3>5, NoStartKeepsFronts DEF BridgeInv
    <2> QED BY <1>3, <2>1, <2>2
  <1>4. ASSUME NEW t \in Tabs, checkout!StartOrder(t) PROVE BridgeInv'
    <2>1. /\ http' = [http EXCEPT ![t].pc = "session"] /\ tab' = [tab EXCEPT ![t] = NoOrder]
          /\ UNCHANGED <<orders, running, thread, made, overlap>>
      BY <1>4 DEF checkout!StartOrder, checkout!Goes, NoOrder
    <2>2. http' \in [Tabs -> Http]
      BY <1>1, <1>2, <2>1, HttpTyped
    <2>3. \A u \in Tabs : /\ http'[u].pc = "start" => http'[u] = http[u]
                          /\ Names(http'[u])
      BY <1>1, <1>2, <2>1 DEF Http, BridgeTyped, Names
    <2> QED BY <1>2, <2>1, <2>2, <2>3, RequestsKeepBridge
  <1>5. ASSUME NEW t \in Tabs, checkout!Fails(t) PROVE BridgeInv'
    <2>1. http' = [http EXCEPT ![t] = NoHttp] /\ UNCHANGED <<orders, running, tab, thread, made, overlap>>
      BY <1>5 DEF checkout!Fails, checkout!Answered, NoHttp
    <2>2. http' \in [Tabs -> Http] /\ \A u \in Tabs : http'[u] = http[u] \/ http'[u] = NoHttp
      BY <1>2, <2>1
    <2>3. \A u \in Tabs : /\ http'[u].pc = "start" => http'[u] = http[u]
                          /\ Names(http'[u])
      BY <1>1, <2>2 DEF BridgeTyped, Names, NoHttp, checkout!NoHttp
    <2> QED BY <1>2, <2>1, <2>2, <2>3, RequestsKeepBridge
  <1>6. ASSUME NEW t \in Tabs, checkout!SubmitPaid(t) PROVE BridgeInv'
    <2>1. /\ http' = [http EXCEPT ![t].pc = "inject", ![t].order = tab[t].order]
          /\ UNCHANGED <<orders, running, tab, thread, made, overlap>>
      BY <1>6 DEF checkout!SubmitPaid
    <2>2. tab[t].order \in 0 .. made.threads /\ tab[t].order > 0
      BY <1>1, <1>2, <1>6 DEF Held, BridgeTyped, checkout!SubmitPaid
    <2>3. [http[t] EXCEPT !.pc = "inject", !.order = tab[t].order] \in Http
      BY <1>2, <2>2 DEF Http
    <2>4. http' \in [Tabs -> Http]
      BY <1>2, <2>1, <2>3
    <2>5. \A u \in Tabs : /\ http'[u].pc = "start" => http'[u] = http[u]
                          /\ Names(http'[u])
      BY <1>1, <1>2, <2>1, <2>2 DEF BridgeTyped, Names, Http
    <2> QED BY <1>2, <2>1, <2>4, <2>5, RequestsKeepBridge
  <1>7. ASSUME NEW t \in Tabs, checkout!InjectPaid(t) PROVE BridgeInv'
    <2>1. /\ http' = [http EXCEPT ![t].pc = "deliver"]
          /\ thread' = [thread EXCEPT ![http[t].order] = IF @ = "quoted" THEN "proven" ELSE @]
          /\ UNCHANGED <<orders, running, tab, made, overlap>>
      BY <1>7 DEF checkout!InjectPaid, checkout!Goes
    <2>2. http' \in [Tabs -> Http]
      BY <1>1, <1>2, <2>1, HttpTyped
    <2>3. \A u \in Tabs : /\ http'[u].pc = "start" => http'[u] = http[u]
                          /\ Names(http'[u])
      BY <1>1, <1>2, <1>7, <2>1 DEF checkout!InjectPaid, Http, BridgeTyped, Names
    <2>4. /\ thread' \in [Orders -> Stage]
          /\ \A o \in Orders : thread[o] = "delivered" => thread'[o] = "delivered"
      BY <1>2, <2>1 DEF Stage
    <2> QED BY <2>1, <2>2, <2>3, <2>4, RequestsKeepBridge
  <1>8. ASSUME NEW o \in Orders, checkout!SellerSpeaks(o) PROVE BridgeInv'
    <2>1. /\ thread' \in [Orders -> Stage]
          /\ \A p \in Orders : thread[p] = "delivered" => thread'[p] = "delivered"
      BY <1>2, <1>8 DEF checkout!SellerSpeaks, Stage
    <2>2. UNCHANGED <<orders, running, http, tab, made, overlap>>
      BY <1>8 DEF checkout!SellerSpeaks
    <2>3. BridgeTyped'
      BY <1>1, <2>1, <2>2 DEF BridgeTyped, Http, Held, Names
    <2>4. HeldIsKept => HeldIsKept'
      BY <1>1, <1>2, <2>1, <2>2 DEF HeldIsKept, Held, Orders, checkout!Orders, BridgeTyped
    <2>5. OneStartEach => OneStartEach'
      BY <2>2, NoStartKeepsFronts DEF Starts
    <2> QED BY <2>2, <2>3, <2>4, <2>5 DEF BridgeInv
  <1>9. ASSUME NEW t \in Tabs, checkout!OpenThread(t) PROVE BridgeInv'
    <2>1. /\ made.threads < MaxThreads /\ made' = [made EXCEPT !.threads = @ + 1]
          /\ thread' = [thread EXCEPT ![made'.threads] = "asked"]
          /\ http' = [http EXCEPT ![t].pc = "quote", ![t].order = made'.threads]
          /\ UNCHANGED <<orders, running, tab, overlap>>
      BY <1>9 DEF checkout!OpenThread
    <2>2. /\ made.threads \in Nat /\ made'.threads = made.threads + 1 /\ made'.threads \in 1 .. MaxThreads
          /\ made'.sessions = made.sessions /\ made'.restarts = made.restarts
          /\ made' \in [threads : 0 .. MaxThreads, sessions : Nat, restarts : Nat]
      BY <1>1, <1>2, <2>1
    <2>3. Http \subseteq Http' /\ Held \subseteq Held'
      BY <2>2 DEF Http, Held
    <2>4. [http[t] EXCEPT !.pc = "quote", !.order = made'.threads] \in Http'
      <3>1. http[t] \in Http
        BY <1>2
      <3>2. 0 .. made.threads \subseteq 0 .. made'.threads /\ made'.threads \in 0 .. made'.threads
        BY <2>2
      <3> QED BY <3>1, <3>2 DEF Http
    <2>5. http' \in [Tabs -> Http']
      BY <1>2, <2>1, <2>3, <2>4
    <2>6. BridgeTyped'
      <3>1. \A u \in Tabs : Names(http'[u])
        BY <1>1, <1>2, <2>1, <2>2 DEF BridgeTyped, Names, Http
      <3>2. \A u \in Tabs : Names(http[u])'
        BY <3>1 DEF Names
      <3>3. thread' \in [Orders -> Stage] /\ tab' \in [Tabs -> Held']
        BY <1>2, <2>1, <2>3 DEF Stage
      <3> QED BY <1>1, <2>1, <2>2, <2>5, <3>2, <3>3 DEF BridgeTyped
    <2>7. HeldIsKept => HeldIsKept'
      <3>1. \A u \in Tabs : tab[u].order \in 0 .. made.threads
        BY <1>2 DEF Held
      <3>2. \A p \in Orders : p <= made.threads => thread'[p] = thread[p]
        BY <1>2, <2>1, <2>2
      <3> QED BY <1>1, <2>1, <2>2, <3>1, <3>2 DEF HeldIsKept, Orders, checkout!Orders
    <2>8. \A u \in Tabs : Starts(u)' => Starts(u) /\ http'[u].front = http[u].front
      BY <1>2, <2>1 DEF Starts, Http
    <2> QED BY <2>1, <2>2, <2>6, <2>7, <2>8, NoStartKeepsFronts DEF BridgeInv
  <1>10. ASSUME NEW t \in Tabs, checkout!Quoted(t) PROVE BridgeInv'
    <2>1. /\ orders' = orders \cup {http[t].order}
          /\ tab' = [tab EXCEPT ![t].order = http[t].order]
          /\ http' = [http EXCEPT ![t] = NoHttp]
          /\ http[t].order \in 0 .. made.threads
          /\ UNCHANGED <<running, thread, made, overlap>>
      BY <1>2, <1>10 DEF checkout!Quoted, checkout!Answered, NoHttp, Http
    <2>2. /\ http[t].order > 0 /\ [tab[t] EXCEPT !.order = http[t].order] \in Held
          /\ Http' = Http /\ Held' = Held
      BY <1>1, <1>2, <1>10, <2>1 DEF checkout!Quoted, BridgeTyped, Names, Held, Http
    <2>3. /\ http' \in [Tabs -> Http] /\ tab' \in [Tabs -> Held]
          /\ \A u \in Tabs : http'[u] = http[u] \/ http'[u] = NoHttp
          /\ \A u \in Tabs : tab'[u] = tab[u] \/ tab'[u].order = http[t].order
      BY <1>2, <2>1, <2>2
    <2>4. BridgeTyped'
      BY <1>1, <2>1, <2>2, <2>3 DEF BridgeTyped, Names, NoHttp, checkout!NoHttp
    <2>5. HeldIsKept => HeldIsKept'
      BY <2>1, <2>3 DEF HeldIsKept
    <2>6. OneStartEach => OneStartEach'
      BY <2>1, <2>3, NoStartKeepsFronts DEF Starts, NoHttp, checkout!NoHttp
    <2> QED BY <2>1, <2>4, <2>5, <2>6 DEF BridgeInv
  <1>11. ASSUME NEW t \in Tabs, checkout!PayOrder(t) PROVE BridgeInv'
    <2>1. /\ tab[t].order > 0 /\ tab' = [tab EXCEPT ![t].paid = TRUE]
          /\ UNCHANGED <<orders, running, http, thread, made, overlap>>
      BY <1>11 DEF checkout!PayOrder
    <2>2. Http' = Http /\ Held' = Held
      BY <2>1 DEF Http, Held
    <2>3. [tab[t] EXCEPT !.paid = TRUE] \in Held
      BY <1>2 DEF Held
    <2>4. tab' \in [Tabs -> Held] /\ \A u \in Tabs : tab'[u].order = tab[u].order
      BY <1>2, <2>1, <2>3 DEF Held
    <2>5. \A u \in Tabs : tab'[u].paid => tab'[u].order > 0
      BY <1>1, <1>2, <2>1, <2>4 DEF BridgeTyped
    <2>6. BridgeTyped'
      BY <1>1, <2>1, <2>2, <2>4, <2>5 DEF BridgeTyped, Names
    <2>7. HeldIsKept => HeldIsKept'
      BY <2>1, <2>4 DEF HeldIsKept
    <2>8. OneStartEach => OneStartEach'
      BY <2>1, NoStartKeepsFronts DEF Starts
    <2> QED BY <2>1, <2>6, <2>7, <2>8 DEF BridgeInv
  <1>12. ASSUME NEW t \in Tabs, checkout!DeliveredTo(t) PROVE BridgeInv'
    <2>1. /\ http[t].pc = "deliver" /\ thread[http[t].order] = "delivered"
          /\ orders' = orders \ {http[t].order}
          /\ tab' = [tab EXCEPT ![t] = NoOrder] /\ http' = [http EXCEPT ![t] = NoHttp]
          /\ UNCHANGED <<running, thread, made, overlap>>
      BY <1>12 DEF checkout!DeliveredTo, checkout!Answered, NoOrder, NoHttp
    <2>2. Http' = Http /\ Held' = Held
      BY <2>1 DEF Http, Held
    <2>3. /\ http' \in [Tabs -> Http] /\ tab' \in [Tabs -> Held]
          /\ \A u \in Tabs : http'[u] = http[u] \/ http'[u] = NoHttp
          /\ \A u \in Tabs : tab'[u] = tab[u] \/ tab'[u] = NoOrder
      BY <1>1, <1>2, <2>1, HttpTyped
    <2>4. BridgeTyped'
      BY <1>1, <2>1, <2>2, <2>3 DEF BridgeTyped, Names, NoHttp, checkout!NoHttp, NoOrder, checkout!NoOrder
    <2>5. HeldIsKept => HeldIsKept'
      BY <2>1, <2>3 DEF HeldIsKept, NoOrder, checkout!NoOrder
    <2>6. OneStartEach => OneStartEach'
      BY <2>1, <2>3, NoStartKeepsFronts DEF Starts, NoHttp, checkout!NoHttp
    <2> QED BY <2>1, <2>4, <2>5, <2>6 DEF BridgeInv
  <1>13. ASSUME NEW t \in Tabs, NEW f \in Fronts, checkout!StartFront(t, f) PROVE BridgeInv'
    <2>1. /\ http[t] = NoHttp /\ running[f] = 0
          /\ http' = [http EXCEPT ![t].pc = "start", ![t].front = f]
          /\ UNCHANGED <<orders, running, tab, thread, made>>
      BY <1>13 DEF checkout!StartFront, NoHttp
    <2>2. Http' = Http /\ Held' = Held
      BY <2>1 DEF Http, Held
    <2>3. [http[t] EXCEPT !.pc = "start", !.front = f] \in Http
      BY <1>2 DEF Http
    <2>4. http' \in [Tabs -> Http]
      BY <1>2, <2>1, <2>3
    <2>5. \A u \in Tabs : IF u = t THEN http'[u].pc = "start" /\ http'[u].front = f
                          ELSE http'[u] = http[u]
      BY <1>2, <2>1 DEF Http
    <2>6. BridgeTyped'
      BY <1>1, <2>1, <2>2, <2>4, <2>5 DEF BridgeTyped, Names
    <2>7. HeldIsKept => HeldIsKept'
      BY <2>1 DEF HeldIsKept
    <2>8. ~ overlap' => ~ overlap /\ \A u \in Tabs : http[u].front # f
      BY <1>13, Zenon DEF checkout!StartFront
    <2>9. ASSUME OneStartEach, ~ overlap' PROVE OneStartEach'
      <3>1. \A u \in Tabs : http[u].front # f
        BY <2>8, <2>9
      <3>2. Running' = Running
        BY <2>1 DEF Running
      <3>3. \A u \in Tabs : Starts(u)' => IF u = t THEN http'[u].front = f
                                          ELSE Starts(u) /\ http'[u].front = http[u].front
        BY <2>5 DEF Starts
      <3>4. \A u \in Tabs : Starts(u)' => http'[u].front \in Fronts /\ running'[http'[u].front] = 0
        BY <2>1, <2>9, <3>3 DEF OneStartEach
      <3>5. \A u, v \in Tabs : Starts(u)' /\ Starts(v)' /\ u # v => http'[u].front # http'[v].front
        BY <2>9, <3>1, <3>3 DEF OneStartEach
      <3> QED BY <2>1, <2>9, <3>2, <3>4, <3>5 DEF OneStartEach
    <2> QED BY <2>1, <2>6, <2>7, <2>8, <2>9 DEF BridgeInv
  <1>14. ASSUME NEW t \in Tabs, checkout!FrontStarted(t) PROVE BridgeInv'
    <2>. DEFINE f == http[t].front
    <2>1. /\ http[t].pc = "start" /\ made' = [made EXCEPT !.sessions = @ + 1]
          /\ running' = [running EXCEPT ![f] = made'.sessions]
          /\ http' = [http EXCEPT ![t] = NoHttp]
          /\ UNCHANGED <<orders, tab, thread, overlap>>
      BY <1>14 DEF checkout!FrontStarted, checkout!Answered, NoHttp
    <2>2. /\ made'.sessions = made.sessions + 1 /\ made.sessions \in Nat
          /\ made'.threads = made.threads /\ made'.restarts = made.restarts
          /\ made' \in [threads : 0 .. MaxThreads, sessions : Nat, restarts : Nat]
      BY <1>2, <2>1
    <2>3. Http' = Http /\ Held' = Held
      BY <2>2 DEF Http, Held
    <2>4. /\ http' \in [Tabs -> Http] /\ running' \in [Fronts -> Nat]
          /\ \A u \in Tabs : http'[u] = IF u = t THEN NoHttp ELSE http[u]
          /\ \A g \in Fronts : running'[g] = IF g = f THEN made.sessions + 1 ELSE running[g]
      BY <1>2, <2>1, <2>2
    <2>5. BridgeTyped'
      BY <1>1, <2>1, <2>2, <2>3, <2>4 DEF BridgeTyped, Names, NoHttp, checkout!NoHttp
    <2>6. HeldIsKept => HeldIsKept'
      BY <2>1 DEF HeldIsKept
    <2>7. ASSUME OneStartEach PROVE OneStartEach'
      <3>1. f \in Fronts /\ running[f] = 0
        BY <2>1, <2>7 DEF OneStartEach, Starts
      <3>2. Running' = Running \cup {f} /\ f \notin Running
        BY <1>2, <2>2, <2>4, <3>1 DEF Running
      <3>3. Cardinality(Running') = Cardinality(Running) + 1 /\ Cardinality(Running) \in Nat
        BY <1>1, <3>2, FS_Subset, FS_AddElement, FS_CardinalityType DEF Running
      <3>4. \A u \in Tabs : Starts(u)' => u # t /\ Starts(u) /\ http'[u] = http[u]
        BY <2>4 DEF Starts, NoHttp, checkout!NoHttp
      <3>5. made'.sessions <= Cardinality(Running')
        BY <2>2, <2>7, <3>3 DEF OneStartEach
      <3>6. \A u \in Tabs : Starts(u)' => http'[u].front \in Fronts /\ running'[http'[u].front] = 0
        BY <2>1, <2>4, <2>7, <3>4 DEF OneStartEach, Starts
      <3>7. \A u, v \in Tabs : Starts(u)' /\ Starts(v)' /\ u # v => http'[u].front # http'[v].front
        BY <2>7, <3>4 DEF OneStartEach
      <3> QED BY <3>5, <3>6, <3>7 DEF OneStartEach
    <2> QED BY <2>1, <2>2, <2>5, <2>6, <2>7 DEF BridgeInv
  <1>15. ASSUME checkout!BridgeRestarts PROVE BridgeInv'
    <2>1. /\ made' = [made EXCEPT !.restarts = @ + 1] /\ running' = [f \in Fronts |-> 0]
          /\ http' = [t \in Tabs |-> NoHttp] /\ UNCHANGED <<tab, thread>>
      BY <1>15 DEF checkout!BridgeRestarts, NoHttp
    <2>2. /\ made' \in [threads : 0 .. MaxThreads, sessions : Nat, restarts : Nat]
          /\ made'.threads = made.threads /\ made'.restarts > 0
      BY <1>2, <2>1
    <2>3. Http' = Http /\ Held' = Held
      BY <2>2 DEF Http, Held
    <2>4. BridgeTyped'
      BY <1>1, <1>2, <2>1, <2>2, <2>3 DEF BridgeTyped, Names, NoHttp, checkout!NoHttp
    <2> QED BY <2>2, <2>4 DEF BridgeInv
  <1>16. ASSUME checkout!SessionCreated \/ checkout!SessionFails PROVE BridgeInv'
    BY <1>3, <1>16 DEF checkout!SessionCreated, checkout!SessionFails
  <1> QED
    BY <1>4, <1>5, <1>6, <1>7, <1>8, <1>9, <1>10, <1>11, <1>12, <1>13, <1>14, <1>15, <1>16
    DEF checkout!BridgeNext, Orders

LEMMA BridgePreserved == ASSUME StarterKitAssumption, BridgeInv, [Next]_vars PROVE BridgeInv'
  <1>1. CASE Bridge
    BY <1>1, BridgeStep DEF Bridge
  <1>2. CASE UNCHANGED bridgeVars
    BY <1>2 DEF bridgeVars, BridgeInv, BridgeTyped, Names, Http, Held, HeldIsKept, OneStartEach,
       Starts, Running
  <1> QED BY <1>1, <1>2 DEF Next, Quickstart, Broker, Market, vars

\* A paid order is kept until it is delivered or the bridge restarts, and the
\* starts that do not overlap make one session for each front, for any number
\* of tabs, fronts, orders and sessions.
THEOREM BridgeKeepsPaidOrders == Spec => []PaidOrderIsKept
  <1>1. BridgeInv => PaidOrderIsKept
    BY SameSets DEF BridgeInv, BridgeTyped, HeldIsKept, OneStartEach, Running, PaidOrderIsKept,
       checkout!PaidOrderIsKept
  <1>2. Init => BridgeInv
    BY BridgeInitial, StarterKitAssumption
  <1>3. BridgeInv /\ [Next]_vars => BridgeInv'
    BY BridgePreserved, StarterKitAssumption
  <1> QED BY <1>1, <1>2, <1>3, PTL DEF Spec
-----------------------------------------------------------------------------
(***************************************************************************)
(* The market of the starter's agents.  A message is typed by its verb:    *)
(* terms name the hash of what they ask for, and what says that an escrow  *)
(* was paid is of the round of its reference.                              *)
(***************************************************************************)
Agents == market!Agents
Rounds == market!Rounds
Prices == market!Prices
Escrows == market!Escrows
NoJob == market!NoJob

Wants == [verb : {"WANT"}, round : Rounds]
Bids == [verb : {"BID"}, round : Rounds, by : MarketSellers, price : Prices]
Awards == [verb : {"AWARD"}, round : Rounds, to : MarketSellers]
Terms == {m \in [verb : {"ESCROW_REQUIRED"}, round : Rounds, by : MarketSellers,
                 ref : market!References, price : Prices] :
            m.ref = market!boundReference(m.by, m.round, m.price)}
Payments == {m \in [verb : {"DEPOSITED", "RELEASED", "ARBITER_RELEASED"}, round : Rounds,
                    escrow : Escrows] : m.escrow[2][1] = m.round}
Deliveries == [verb : {"DELIVERED"}, round : Rounds]
Messages == Wants \cup Bids \cup Awards \cup Terms \cup Payments \cup Deliveries
Mail == [m : Messages, thread : Nat]

Settling == pc \in {"terms", "deposit", "delivery", "release"}
Paying == pc \in {"deposit", "delivery", "release"}

\* The shape of the market's state.
MarketTyped ==
  /\ pc \in {"start", "bids"} \/ Settling
  /\ round \in 0 .. MaxRound /\ (pc # "start" => round \in Rounds)
  /\ DOMAIN bids \subseteq MarketSellers /\ \A s \in DOMAIN bids : bids[s] \in Prices
  /\ pc = "start" => DOMAIN bids = {}
  /\ Settling => winner \in DOMAIN bids
  /\ Paying => /\ terms.by \in MarketSellers /\ terms.price \in Prices
               /\ terms.ref = market!boundReference(terms.by, round, terms.price)
  /\ quoted \in [MarketSellers -> [Rounds -> 0 .. Budget]]
  /\ awarded \in [MarketSellers -> SUBSET market!References]
  /\ job \in [MarketSellers -> [ref : market!References, round : Rounds] \cup {NoJob}]
  /\ unread \in [Agents -> Seq(Mail)] /\ threads \in Seq(Seq(Messages))
  /\ \A s \in MarketSellers : job[s] # NoJob => unread[s] # <<>>
  /\ {chain, deposits, works, releases} \subseteq [Escrows -> Nat]

\* The deposits into e that a seller has been told of and has not looked at.
IsToDo(e, s, n) ==
  /\ n \in DOMAIN unread[s] /\ (n = 1 => job[s] = NoJob)
  /\ unread[s][n].m.verb = "DEPOSITED" /\ unread[s][n].m.escrow = e
ToDo(e) == {p \in MarketSellers \X Nat : IsToDo(e, p[1], p[2])}

\* Each deposit was released or is locked, and lets one seller work once.
Covered(e) ==
  /\ IsFiniteSet(ToDo(e)) /\ works[e] + Cardinality(ToDo(e)) <= deposits[e]
  /\ deposits[e] = releases[e] + (IF chain[e] > 0 THEN 1 ELSE 0)

\* What is delivered has been worked for, in its round.
WorkedIn(r) == \E e \in Escrows : e[2][1] = r /\ works[e] > 0
Has(a, m) == \E n \in DOMAIN unread[a] : unread[a][n].m = m
Worked ==
  /\ \A s \in MarketSellers : job[s] # NoJob => WorkedIn(job[s].round)
  /\ \A m \in Deliveries : Has(Nobody, m) => WorkedIn(m.round)
  /\ pc = "release" => WorkedIn(round)

MarketInv == MarketTyped /\ (\A e \in Escrows : Covered(e)) /\ Worked

\* A seller is asked once in a round, and asks one price in it: in its quotes,
\* its bids and its terms.
IsWant(s, r, n) ==
  n \in DOMAIN unread[s] /\ unread[s][n].m.verb = "WANT" /\ unread[s][n].m.round = r
Asked(s, r, p) ==
  \/ quoted[s][r] = p
  \/ round = r /\ s \in DOMAIN bids /\ bids[s] = p
  \/ \E m \in Bids \cup Terms : Has(Nobody, m) /\ m.by = s /\ m.round = r /\ m.price = p
OnePrice ==
  \A s \in MarketSellers, r \in Rounds :
    \A p, q \in Prices : Asked(s, r, p) /\ Asked(s, r, q) => p = q
WantedOnce ==
  \A s \in MarketSellers, r \in Rounds : \A n \in Nat : IsWant(s, r, n) =>
    /\ r <= round
    /\ \A i \in Nat : IsWant(s, r, i) => i = n
    /\ \A p \in Prices : ~ Asked(s, r, p)
NotAskedYet ==
  \A s \in MarketSellers, r \in Rounds : r > round => \A p \in Prices : ~ Asked(s, r, p)

\* Only the winner of a round is told, or asks for its terms.
TheWinner(s, r) == r <= round /\ (r = round => pc # "bids" /\ (Settling => winner = s))
OneAward ==
  /\ \A s \in MarketSellers, m \in Awards : Has(s, m) => TheWinner(s, m.round)
  /\ \A m \in Terms : Has(Nobody, m) => TheWinner(m.by, m.round)

\* One escrow is paid into in a round, the one of the terms, and it is released
\* once, when it was worked for.
TermsEscrow == market!EscrowFor(terms.by, terms.ref)
OneDeposit ==
  \A e \in Escrows : deposits[e] > 0 =>
    /\ e[2][1] <= round
    /\ e[2][1] = round => \/ pc = "start"
                          \/ pc \in {"delivery", "release"} /\ e = TermsEscrow
OneRelease ==
  \A e \in Escrows : releases[e] > 0 => /\ works[e] > 0 /\ releases[e] = 1
                                        /\ e[2][1] = round => pc = "start"

Settles == Paying => terms.by = winner /\ terms.price = bids[winner]

Prompted == OnePrice /\ WantedOnce /\ NotAskedYet
Settled == OneAward /\ OneDeposit /\ OneRelease /\ Settles
FirstLife == Prompted /\ Settled
LifeInv == restarts \in Nat /\ (restarts = 0 => FirstLife)

\* What moves in the mailboxes: the first k[a] of each are gone and one of
\* new[a] may be added at the end.
Moves(k, new) ==
  \A a \in Agents : \A i \in DOMAIN unread'[a] :
    IF i + k[a] \in DOMAIN unread[a] THEN unread'[a][i] = unread[a][i + k[a]]
    ELSE i + k[a] = Len(unread[a]) + 1 /\ unread'[a][i].m \in new[a]

Read(readers) == [a \in Agents |-> IF a \in readers THEN 1 ELSE 0]
Sent(to, m) == [a \in Agents |-> IF a \in to THEN {m} ELSE {}]

LEMMA StarterFacts ==
  ASSUME StarterKitAssumption
  PROVE  /\ MaxRound \in Nat /\ Budget \in Nat /\ Agents = MarketSellers \cup {Nobody}
         /\ Rounds = 1 .. MaxRound /\ Prices = 1 .. Budget /\ Nobody \notin MarketSellers
         /\ Escrows = BOOLEAN \X market!References
         /\ \A s \in MarketSellers, r \in Rounds, p \in Prices :
              market!boundReference(s, r, p) \in market!References /\ market!boundReference(s, r, p)[1] = r
  <1>1. /\ Nobody \notin MarketSellers /\ {Budget, MaxRound, MaxWants, MaxFaults} \subseteq Nat
        /\ DOMAIN WalletOf = MarketSellers
    BY DEF StarterKitAssumption, market!StarterAssumption
  <1>2. \A s \in MarketSellers : WalletOf[s] \in market!Range(WalletOf)
    BY <1>1 DEF market!Range
  <1> QED BY <1>1, <1>2 DEF Agents, market!Agents, Rounds, market!Rounds, Prices, market!Prices, Escrows,
          market!Escrows, market!boundReference, market!References

\* A mailbox b after one step: k mentions taken from its front, and x added.
BoxMoved(S, b, x, k, c) ==
  /\ c \in Seq(S) /\ Append(c, x) \in Seq(S) /\ Append(c, x) # <<>>
  /\ Len(b) \in Nat /\ DOMAIN b = 1 .. Len(b) /\ DOMAIN c = 1 .. Len(b) - k
  /\ DOMAIN Append(c, x) = 1 .. Len(b) - k + 1
  /\ \A i \in DOMAIN c : c[i] = b[i + k] /\ Append(c, x)[i] = b[i + k]
  /\ Append(c, x)[Len(b) - k + 1] = x

LEMMA BoxMoves ==
  ASSUME NEW S, NEW b \in Seq(S), NEW x \in S, NEW k \in {0, 1}, NEW c,
         k = 0 => c = b, k = 1 => b # <<>> /\ c = Tail(b)
  PROVE  BoxMoved(S, b, x, k, c)
  <1>1. Len(b) \in Nat /\ DOMAIN b = 1 .. Len(b)
    BY LenProperties
  <1>2. c \in Seq(S) /\ Len(c) = Len(b) - k /\ Len(c) \in Nat /\ \A i \in 1 .. Len(c) : c[i] = b[i + k]
    <2>1. CASE k = 0
      BY <1>1, <2>1
    <2>2. CASE k = 1
      <3>1. c = Tail(b) /\ b # <<>>
        BY <2>2
      <3>2. Tail(b) \in Seq(S) /\ Len(Tail(b)) = Len(b) - 1
            /\ \A i \in 1 .. Len(Tail(b)) : Tail(b)[i] = b[i + 1]
        BY <3>1, HeadTailProperties
      <3>3. Len(c) \in Nat
        BY <3>1, <3>2, LenProperties
      <3> QED BY <2>2, <3>1, <3>2, <3>3
    <2> QED BY <2>1, <2>2
  <1>3. PICK d : d = Append(c, x)
    OBVIOUS
  <1>4. d \in Seq(S) /\ Len(d) = Len(c) + 1
        /\ (\A i \in 1 .. Len(c) : d[i] = c[i]) /\ d[Len(c) + 1] = x
    BY <1>2, <1>3, AppendProperties
  <1>5. DOMAIN c = 1 .. Len(c) /\ DOMAIN d = 1 .. Len(c) + 1
    BY <1>2, <1>4, LenProperties
  <1>6. d # <<>>
    BY <1>2, <1>4, EmptySeq
  <1> QED BY <1>1, <1>2, <1>3, <1>4, <1>5, <1>6 DEF BoxMoved

\* The mail and the transcript after m was sent by an agent of readers.
WasSent(m, to, t, readers) ==
  /\ unread' \in [Agents -> Seq(Mail)] /\ threads' \in Seq(Seq(Messages))
  /\ Moves(Read(readers), Sent(to, m))
  /\ \A a \in Agents \ readers :
       /\ unread[a] # <<>> => unread'[a] # <<>>
       /\ unread'[a] = IF a \in to THEN Append(unread[a], [m |-> m, thread |-> t]) ELSE unread[a]

\* A message that is sent goes to the end of the mailboxes of those it
\* mentions; a reply takes the mention it answers from the mailbox.
LEMMA DeliverMoves ==
  ASSUME StarterKitAssumption, MarketTyped, NEW m \in Messages, NEW to, NEW t \in Nat,
         NEW readers \in SUBSET Agents, \A a \in readers : unread[a] # <<>>,
         market!Deliver(m, to, t, readers)
  PROVE  WasSent(m, to, t, readers)
  <1>1. /\ threads' = [threads EXCEPT ![t] = Append(@, m)]
        /\ unread' = [a \in Agents |->
             IF a \in to THEN Append(IF a \in readers THEN Tail(unread[a]) ELSE unread[a], [m |-> m, thread |-> t])
             ELSE IF a \in readers THEN Tail(unread[a]) ELSE unread[a]]
    BY DEF market!Deliver, Agents
  <1>2. [m |-> m, thread |-> t] \in Mail
    BY DEF Mail
  <1>3. ASSUME NEW a \in Agents
        PROVE  /\ unread'[a] \in Seq(Mail)
               /\ \A i \in DOMAIN unread'[a] :
                    LET k == IF a \in readers THEN 1 ELSE 0 IN
                    IF i + k \in DOMAIN unread[a] THEN unread'[a][i] = unread[a][i + k]
                    ELSE i + k = Len(unread[a]) + 1 /\ unread'[a][i].m \in Sent(to, m)[a]
               /\ a \notin readers /\ unread[a] # <<>> => unread'[a] # <<>>
    <2>. DEFINE k == IF a \in readers THEN 1 ELSE 0
                x == [m |-> m, thread |-> t]
    <2>0. k \in {0, 1} /\ (k = 0 <=> a \notin readers) /\ x \in Mail /\ x.m = m
      BY <1>2
    <2>1. PICK c : c = IF a \in readers THEN Tail(unread[a]) ELSE unread[a]
      OBVIOUS
    <2>2. unread[a] \in Seq(Mail) /\ (a \in readers => unread[a] # <<>>)
      BY DEF MarketTyped
    <2>3. unread'[a] = IF a \in to THEN Append(c, x) ELSE c
      BY <1>1, <2>1
    <2>4. BoxMoved(Mail, unread[a], x, k, c)
      <3>1. k = 0 => c = unread[a]
        BY <2>0, <2>1
      <3>2. k = 1 => unread[a] # <<>> /\ c = Tail(unread[a])
        BY <2>0, <2>1, <2>2
      <3>3. k \in {0, 1} /\ x \in Mail /\ unread[a] \in Seq(Mail)
        BY <2>0, <2>2
      <3>. HIDE DEF k, x
      <3> QED BY <3>1, <3>2, <3>3, BoxMoves
    <2>. HIDE DEF k, x
    <2>5. CASE a \in to
      <3>1. Sent(to, m)[a] = {m} /\ unread'[a] = Append(c, x)
        BY <2>3, <2>5 DEF Sent
      <3>2. ASSUME NEW i \in DOMAIN unread'[a]
            PROVE  IF i + k \in DOMAIN unread[a] THEN unread'[a][i] = unread[a][i + k]
                    ELSE i + k = Len(unread[a]) + 1 /\ unread'[a][i].m \in Sent(to, m)[a]
        <4>1. CASE i \in DOMAIN c
          BY <2>0, <2>4, <3>1, <4>1 DEF BoxMoved
        <4>2. CASE i = Len(unread[a]) - k + 1
          BY <2>0, <2>4, <3>1, <4>2 DEF BoxMoved
        <4> QED BY <2>0, <2>4, <3>1, <4>1, <4>2 DEF BoxMoved
      <3> QED BY <2>4, <3>1, <3>2 DEF k, BoxMoved
    <2>6. CASE a \notin to
      <3>1. unread'[a] = c /\ \A i \in DOMAIN c : i + k \in DOMAIN unread[a]
        BY <2>0, <2>3, <2>4, <2>6 DEF BoxMoved
      <3> QED BY <2>0, <2>1, <2>4, <3>1 DEF k, BoxMoved
    <2> QED BY <2>5, <2>6
  <1>4. threads' \in Seq(Seq(Messages))
    <2>1. threads \in Seq(Seq(Messages))
      BY DEF MarketTyped
    <2>2. CASE t \in DOMAIN threads
      <3>1. threads[t] \in Seq(Messages)
        BY <2>1, <2>2, ElementOfSeq, LenProperties
      <3>2. Append(threads[t], m) \in Seq(Messages)
        BY <3>1, AppendProperties
      <3> QED BY <1>1, <2>1, <2>2, <3>2, ExceptSeq
    <2>3. CASE t \notin DOMAIN threads
      <3>1. threads' = threads
        BY <1>1, <2>1, <2>3
      <3> QED BY <2>1, <3>1
    <2> QED BY <2>2, <2>3
  <1>5. unread' \in [Agents -> Seq(Mail)]
    BY <1>1, <1>3
  <1>6. Moves(Read(readers), Sent(to, m))
    BY <1>3 DEF Moves, Read
  <1>7. \A a \in Agents \ readers : unread'[a] = IF a \in to THEN Append(unread[a], [m |-> m, thread |-> t])
                                                     ELSE unread[a]
    BY <1>1
  <1> QED BY <1>3, <1>4, <1>5, <1>6, <1>7 DEF WasSent

\* A mention that is read leaves the mailbox, or the mailbox is lost.
LEMMA DiscardMoves ==
  ASSUME StarterKitAssumption, MarketTyped, NEW b \in Agents, unread[b] # <<>>,
         unread' = [unread EXCEPT ![b] = Tail(@)], NEW new
  PROVE  /\ unread' \in [Agents -> Seq(Mail)] /\ Moves(Read({b}), new)
         /\ \A a \in Agents \ {b} : unread'[a] = unread[a]
  <1>1. unread \in [Agents -> Seq(Mail)]
    BY DEF MarketTyped
  <1>2. /\ Tail(unread[b]) \in Seq(Mail) /\ Len(Tail(unread[b])) = Len(unread[b]) - 1
        /\ \A i \in 1 .. Len(Tail(unread[b])) : Tail(unread[b])[i] = unread[b][i + 1]
    BY <1>1, HeadTailProperties
  <1>3. \A a \in Agents : Len(unread[a]) \in Nat /\ DOMAIN unread[a] = 1 .. Len(unread[a])
    BY <1>1, LenProperties
  <1>4. DOMAIN Tail(unread[b]) = 1 .. Len(unread[b]) - 1
    BY <1>2, LenProperties
  <1>5. ASSUME NEW a \in Agents, NEW i \in DOMAIN unread'[a]
        PROVE  i + Read({b})[a] \in DOMAIN unread[a] /\ unread'[a][i] = unread[a][i + Read({b})[a]]
    <2>1. CASE a = b
      <3>1. Read({b})[a] = 1 /\ unread'[a] = Tail(unread[b])
        BY <1>1, <2>1 DEF Read
      <3>2. i \in 1 .. Len(unread[b]) - 1 /\ Len(unread[b]) \in Nat
        BY <1>3, <1>4, <1>5, <3>1
      <3>3. i + 1 \in DOMAIN unread[b] /\ Tail(unread[b])[i] = unread[b][i + 1]
        BY <1>2, <1>3, <3>2
      <3> QED BY <2>1, <3>1, <3>3
    <2>2. CASE a # b
      <3>1. Read({b})[a] = 0 /\ unread'[a] = unread[a]
        BY <1>1, <2>2 DEF Read
      <3>2. i \in DOMAIN unread[a] /\ i \in Nat
        BY <1>3, <1>5, <3>1
      <3>3. i + Read({b})[a] = i
        BY <3>1, <3>2
      <3> QED BY <3>1, <3>2, <3>3
    <2> QED BY <2>1, <2>2
  <1>6. unread' \in [Agents -> Seq(Mail)]
    BY <1>1, <1>2
  <1> QED BY <1>1, <1>5, <1>6 DEF Moves

LEMMA LostMoves ==
  ASSUME StarterKitAssumption, MarketTyped, NEW b \in Agents, NEW new,
         unread' = unread \/ unread' = [unread EXCEPT ![b] = <<>>]
  PROVE  /\ unread' \in [Agents -> Seq(Mail)] /\ Moves(Read({}), new)
         /\ \A a \in Agents : unread'[a] = unread[a] \/ (a = b /\ unread'[a] = <<>>)
  <1>1. unread \in [Agents -> Seq(Mail)] /\ <<>> \in Seq(Mail)
    BY EmptySeq DEF MarketTyped
  <1>2. /\ unread' \in [Agents -> Seq(Mail)]
        /\ \A a \in Agents : unread'[a] = unread[a] \/ (a = b /\ unread'[a] = <<>>)
    BY <1>1
  <1>3. ASSUME NEW a \in Agents, NEW i \in DOMAIN unread'[a]
        PROVE  i + Read({})[a] \in DOMAIN unread[a] /\ unread'[a][i] = unread[a][i + Read({})[a]]
    <2>1. DOMAIN <<>> = {}
      OBVIOUS
    <2>2. unread'[a] = unread[a] /\ Read({})[a] = 0
      BY <1>2, <1>3, <2>1 DEF Read
    <2>3. Len(unread[a]) \in Nat /\ DOMAIN unread[a] = 1 .. Len(unread[a])
      BY <1>1, LenProperties
    <2> QED BY <1>3, <2>2, <2>3
  <1> QED BY <1>2, <1>3 DEF Moves

\* What is in a mailbox was there before or came with the step.
LEMMA OldOrSent ==
  ASSUME NEW k, NEW new, Moves(k, new), NEW a \in Agents, NEW m, Has(a, m)'
  PROVE  Has(a, m) \/ m \in new[a]
  BY DEF Moves, Has

LEMMA MessageKinds ==
  /\ Wants \subseteq Messages /\ Bids \subseteq Messages /\ Awards \subseteq Messages
  /\ Terms \subseteq Messages /\ Payments \subseteq Messages /\ Deliveries \subseteq Messages
  /\ \A m \in Messages : /\ (m.verb = "WANT") = (m \in Wants) /\ (m.verb = "BID") = (m \in Bids)
                         /\ (m.verb = "AWARD") = (m \in Awards)
                         /\ (m.verb = "ESCROW_REQUIRED") = (m \in Terms)
                         /\ (m.verb \in {"DEPOSITED", "RELEASED", "ARBITER_RELEASED"}) = (m \in Payments)
                         /\ (m.verb = "DELIVERED") = (m \in Deliveries)
  <1>1. /\ \A m \in Wants : m.verb = "WANT"
        /\ \A m \in Bids : m.verb = "BID"
        /\ \A m \in Awards : m.verb = "AWARD"
        /\ \A m \in Terms : m.verb = "ESCROW_REQUIRED"
        /\ \A m \in Payments : m.verb \in {"DEPOSITED", "RELEASED", "ARBITER_RELEASED"}
        /\ \A m \in Deliveries : m.verb = "DELIVERED"
    BY DEF Wants, Bids, Awards, Terms, Payments, Deliveries
  <1> QED BY <1>1 DEF Messages

\* The first mention of a mailbox.
LEMMA HeadFacts ==
  ASSUME MarketTyped, NEW a \in Agents, unread[a] # <<>>
  PROVE  /\ market!Heard(a) = unread[a][1].m /\ market!Heard(a) \in Messages /\ Has(a, market!Heard(a))
         /\ 1 \in DOMAIN unread[a] /\ Head(unread[a]).thread \in Nat
  <1>1. unread[a] \in Seq(Mail)
    BY DEF MarketTyped
  <1>2. Len(unread[a]) \in Nat \ {0} /\ DOMAIN unread[a] = 1 .. Len(unread[a])
    BY <1>1, EmptySeq, LenProperties
  <1>3. Head(unread[a]) = unread[a][1] /\ unread[a][1] \in Mail
    BY <1>1, <1>2, ElementOfSeq
  <1> QED BY <1>2, <1>3 DEF market!Heard, Mail, Has

\* What a seller has to look at for e is not more than before when none is added.
LEMMA LessToDo ==
  ASSUME StarterKitAssumption, MarketTyped, unread' \in [Agents -> Seq(Mail)],
         NEW k \in [Agents -> {0, 1}], NEW new, Moves(k, new), NEW e,
         \A s \in MarketSellers : \A m \in new[s] : ~ (m.verb = "DEPOSITED" /\ m.escrow = e),
         \A s \in MarketSellers : k[s] = 0 /\ job[s] # NoJob => job'[s] # NoJob \/ unread'[s] = <<>>,
         IsFiniteSet(ToDo(e))
  PROVE  IsFiniteSet(ToDo(e)') /\ Cardinality(ToDo(e)') <= Cardinality(ToDo(e))
  <1>. DEFINE f == [p \in ToDo(e)' |-> <<p[1], p[2] + k[p[1]]>>]
  <1>1. \A s \in MarketSellers : s \in Agents /\ k[s] \in {0, 1}
    BY StarterFacts
  <1>2. ASSUME NEW p \in ToDo(e)'
        PROVE  p = <<p[1], p[2]>> /\ p[1] \in MarketSellers /\ p[2] \in Nat /\ f[p] \in ToDo(e)
    <2>1. PICK s \in MarketSellers, n \in Nat : p = <<s, n>> /\ IsToDo(e, s, n)'
      BY <1>2 DEF ToDo
    <2>2. /\ n \in DOMAIN unread'[s] /\ (n = 1 => job'[s] = NoJob)
          /\ unread'[s][n].m.verb = "DEPOSITED" /\ unread'[s][n].m.escrow = e
      BY <2>1 DEF IsToDo, NoJob, market!NoJob
    <2>3. n + k[s] \in DOMAIN unread[s] /\ unread'[s][n] = unread[s][n + k[s]]
      BY <1>1, <2>2 DEF Moves
    <2>4. n >= 1
      BY <1>1, <2>2, LenProperties
    <2>5. n + k[s] = 1 => job[s] = NoJob
      <3>1. unread'[s] # <<>>
        BY <2>2
      <3> QED BY <1>1, <2>2, <2>4, <3>1
    <2>6. <<s, n + k[s]>> \in ToDo(e)
      BY <1>1, <2>2, <2>3, <2>5 DEF ToDo, IsToDo
    <2> QED BY <1>2, <2>1, <2>6
  <1>3. ASSUME NEW p \in ToDo(e)', NEW q \in ToDo(e)', f[p] = f[q] PROVE p = q
    <2>1. p[1] = q[1] /\ p[2] + k[p[1]] = q[2] + k[q[1]]
      BY <1>3
    <2>2. p = <<p[1], p[2]>> /\ p[1] \in MarketSellers /\ p[2] \in Nat
      BY <1>2, <1>3
    <2>3. q = <<q[1], q[2]>> /\ q[1] \in MarketSellers /\ q[2] \in Nat
      BY <1>2, <1>3
    <2>4. p[2] = q[2]
      BY <1>1, <2>1, <2>2, <2>3
    <2> QED BY <2>1, <2>2, <2>3, <2>4
  <1>4. f \in Injection(ToDo(e)', ToDo(e))
    BY <1>2, <1>3 DEF Injection, IsInjective
  <1> QED BY <1>4, FS_Injection

\* Work that was begun stays begun.
LEMMA WorkedKept ==
  ASSUME StarterKitAssumption, MarketInv, NEW k, NEW new, Moves(k, new),
         \A e \in Escrows : works[e] > 0 => works'[e] > 0,
         \A m \in new[Nobody] : m \in Deliveries => WorkedIn(m.round),
         \A s \in MarketSellers : job'[s] = job[s] \/ job'[s] = NoJob
           \/ \E e \in Escrows : e[2][1] = job'[s].round /\ works'[e] > 0,
         pc' = "release" => WorkedIn(round')
  PROVE  Worked'
  <1>1. Nobody \in Agents
    BY StarterFacts
  <1>2. \A r : WorkedIn(r) => WorkedIn(r)'
    BY DEF WorkedIn, Escrows, market!Escrows, market!References, market!Rounds, market!Prices
  <1>3. \A s \in MarketSellers : job'[s] # NoJob =>
          \E e \in Escrows : e[2][1] = job'[s].round /\ works'[e] > 0
    BY DEF MarketInv, Worked, WorkedIn
  <1>4. \A m \in Deliveries : Has(Nobody, m)' => WorkedIn(m.round)'
    <2>1. ASSUME NEW m \in Deliveries, Has(Nobody, m)' PROVE WorkedIn(m.round)'
      <3>1. Has(Nobody, m) \/ m \in new[Nobody]
        BY <1>1, <2>1, OldOrSent
      <3>2. WorkedIn(m.round)
        BY <2>1, <3>1 DEF MarketInv, Worked
      <3> QED BY <1>2, <3>2
    <2> QED BY <2>1
  <1>5. pc' = "release" => \E e \in Escrows : e[2][1] = round' /\ works'[e] > 0
    BY DEF WorkedIn
  <1> QED BY <1>3, <1>4, <1>5 DEF Worked, WorkedIn, NoJob, market!NoJob, Deliveries, Rounds, market!Rounds,
             Escrows, market!Escrows, market!References, market!Rounds, market!Prices

LEMMA ToDoCounted ==
  ASSUME MarketInv, NEW e \in Escrows
  PROVE  /\ Cardinality(ToDo(e)) \in Nat /\ IsFiniteSet(ToDo(e)) /\ works[e] + Cardinality(ToDo(e)) <= deposits[e]
         /\ deposits[e] = releases[e] + (IF chain[e] > 0 THEN 1 ELSE 0)
         /\ works[e] \in Nat /\ deposits[e] \in Nat /\ releases[e] \in Nat /\ chain[e] \in Nat
  <1>1. Covered(e) /\ MarketTyped
    BY DEF MarketInv
  <1>2. Cardinality(ToDo(e)) \in Nat
    BY <1>1, FS_CardinalityType DEF Covered
  <1> QED BY <1>1, <1>2 DEF Covered, MarketTyped

\* A step that begins no work and pays nothing.
LEMMA CalmStep ==
  ASSUME StarterKitAssumption, MarketInv, MarketTyped',
         NEW k \in [Agents -> {0, 1}], NEW new, Moves(k, new),
         UNCHANGED <<chain, deposits, releases, works>>,
         \A s \in MarketSellers : \A m \in new[s] : m.verb # "DEPOSITED",
         \A m \in new[Nobody] : m \in Deliveries => WorkedIn(m.round),
         \A s \in MarketSellers :
           job'[s] = job[s] \/ (job'[s] = NoJob /\ (k[s] = 1 \/ unread'[s] = <<>>)),
         pc' = "release" => WorkedIn(round')
  PROVE  MarketInv'
  <1>1. MarketTyped /\ unread' \in [Agents -> Seq(Mail)]
    BY DEF MarketInv, MarketTyped
  <1>2. ASSUME NEW e \in Escrows PROVE Covered(e)'
    <2>1. \A s \in MarketSellers : k[s] = 0 /\ job[s] # NoJob => job'[s] # NoJob \/ unread'[s] = <<>>
      OBVIOUS
    <2>2. \A s \in MarketSellers : \A m \in new[s] : ~ (m.verb = "DEPOSITED" /\ m.escrow = e)
      OBVIOUS
    <2>3. IsFiniteSet(ToDo(e)') /\ Cardinality(ToDo(e)') <= Cardinality(ToDo(e))
      BY <1>1, <2>1, <2>2, ToDoCounted, LessToDo
    <2>4. Cardinality(ToDo(e)') \in Nat
      BY <2>3, FS_CardinalityType
    <2> QED BY <2>3, <2>4, ToDoCounted DEF Covered
  <1>3. Worked'
    BY WorkedKept
  <1> QED BY <1>2, <1>3 DEF MarketInv, Escrows, market!Escrows

\* What a message from the buyer moves, and what a seller's reply does.
LEMMA SendMoves ==
  ASSUME StarterKitAssumption, MarketTyped, NEW m \in Messages, NEW to, market!Send(m, to)
  PROVE  /\ unread' \in [Agents -> Seq(Mail)] /\ threads' \in Seq(Seq(Messages))
         /\ Moves(Read({}), Sent(to, m)) /\ \A a \in Agents : unread[a] # <<>> => unread'[a] # <<>>
         /\ \A a \in Agents : IF a \in to
              THEN \E t \in Nat : unread'[a] = Append(unread[a], [m |-> m, thread |-> t])
              ELSE unread'[a] = unread[a]
  <1>1. Len(threads) \in Nat
    BY LenProperties DEF MarketTyped
  <1>2. market!Deliver(m, to, Len(threads), {})
    BY DEF market!Send, market!MyThread
  <1>3. {} \in SUBSET Agents /\ \A a \in {} : unread[a] # <<>>
    OBVIOUS
  <1>4. WasSent(m, to, Len(threads), {})
    BY <1>1, <1>2, <1>3, DeliverMoves
  <1> QED BY <1>1, <1>4 DEF WasSent

LEMMA ReplyMoves ==
  ASSUME StarterKitAssumption, MarketTyped, NEW s \in MarketSellers, unread[s] # <<>>,
         NEW m \in Messages, market!Reply(s, m)
  PROVE  /\ unread' \in [Agents -> Seq(Mail)] /\ threads' \in Seq(Seq(Messages))
         /\ Moves(Read({s}), Sent({Nobody}, m))
         /\ \A a \in MarketSellers \ {s} : unread'[a] = unread[a]
  <1>1. Head(unread[s]).thread \in Nat /\ s \in Agents
    BY HeadFacts, StarterFacts
  <1>2. market!Deliver(m, {Nobody}, Head(unread[s]).thread, {s})
    BY DEF market!Reply
  <1>3. {s} \in SUBSET Agents /\ \A a \in {s} : unread[a] # <<>>
    BY <1>1
  <1>4. WasSent(m, {Nobody}, Head(unread[s]).thread, {s})
    BY <1>1, <1>2, <1>3, DeliverMoves
  <1>5. \A a \in MarketSellers : a \in Agents /\ a \notin {Nobody}
    BY StarterFacts
  <1> QED BY <1>4, <1>5 DEF WasSent

LEMMA ReadTyped == \A R : Read(R) \in [Agents -> {0, 1}]
  BY DEF Read

\* The variables of the processes and the chain, when a step has left them.
LEMMA BuyerAlone ==
  ASSUME MarketTyped, UNCHANGED <<quoted, awarded, job>>,
         {chain, deposits, works, releases}' \subseteq [Escrows -> Nat],
         pc' \in {"start", "bids"} \/ Settling',
         round' \in 0 .. MaxRound, pc' # "start" => round' \in Rounds,
         DOMAIN bids' \subseteq MarketSellers, \A s \in DOMAIN bids' : bids'[s] \in Prices,
         pc' = "start" => DOMAIN bids' = {}, Settling' => winner' \in DOMAIN bids',
         Paying' => /\ terms'.by \in MarketSellers /\ terms'.price \in Prices
                    /\ terms'.ref = market!boundReference(terms'.by, round', terms'.price),
         unread' \in [Agents -> Seq(Mail)], threads' \in Seq(Seq(Messages)),
         \A s \in MarketSellers : unread[s] # <<>> => unread'[s] # <<>>
  PROVE  MarketTyped'
  BY DEF MarketTyped, NoJob, market!NoJob, market!boundReference

LEMMA WantSafe == ASSUME StarterKitAssumption, MarketInv, market!Want PROVE MarketInv'
  <1>. DEFINE m == [verb |-> "WANT", round |-> round']
  <1>1. /\ pc = "start" /\ pc' = "bids" /\ round < MaxRound /\ round' = round + 1
        /\ market!Send(m, MarketSellers)
        /\ UNCHANGED <<bids, winner, terms, quoted, awarded, job, chain, deposits, releases, works>>
    BY DEF market!Want, market!NothingPaid, market!OtherThanBuyer, market!sellerVars
  <1>2. MarketTyped /\ Agents = MarketSellers \cup {Nobody} /\ Nobody \notin MarketSellers
    BY StarterFacts DEF MarketInv
  <1>3. round' \in Rounds /\ round' \in 0 .. MaxRound
    BY <1>1, <1>2, StarterFacts DEF MarketTyped
  <1>4. m \in Wants /\ m \in Messages
    BY <1>3, MessageKinds DEF Wants
  <1>. HIDE DEF m
  <1>5. /\ unread' \in [Agents -> Seq(Mail)] /\ threads' \in Seq(Seq(Messages))
        /\ Moves(Read({}), Sent(MarketSellers, m))
        /\ \A a \in Agents : unread[a] # <<>> => unread'[a] # <<>>
    BY <1>1, <1>2, <1>4, SendMoves
  <1>6. ~ Settling' /\ ~ Paying'
    BY <1>1 DEF Settling, Paying
  <1>7. MarketTyped'
    BY <1>1, <1>2, <1>3, <1>5, <1>6, BuyerAlone DEF MarketTyped
  <1>8. \A s \in MarketSellers : \A x \in Sent(MarketSellers, m)[s] : x.verb # "DEPOSITED"
    BY <1>2 DEF Sent, m
  <1>9. Sent(MarketSellers, m)[Nobody] = {}
    BY <1>2 DEF Sent
  <1> QED BY <1>1, <1>5, <1>7, <1>8, <1>9, ReadTyped, CalmStep

LEMMA RoundEnds ==
  ASSUME market!EndRound
  PROVE  /\ pc' = "start" /\ ~ Settling' /\ ~ Paying' /\ DOMAIN bids' = {}
         /\ bids' = market!NoBids /\ winner' = Nobody
  BY DEF market!EndRound, market!NoBids, Settling, Paying

LEMMA CollectBidSafe == ASSUME StarterKitAssumption, MarketInv, market!CollectBid PROVE MarketInv'
  <1>. DEFINE m == market!Heard(Nobody)
  <1>1. /\ pc = "bids" /\ pc' = "bids" /\ unread[Nobody] # <<>>
        /\ unread' = [unread EXCEPT ![Nobody] = Tail(@)]
        /\ bids' = IF m.verb = "BID" /\ m.round = round THEN market!selectBids(m) ELSE bids
        /\ UNCHANGED <<threads, round, winner, terms, quoted, awarded, job, chain, deposits, releases, works>>
    BY DEF market!CollectBid, market!NothingPaid, market!OtherThanBuyer, market!sellerVars,
       market!Discard, market!Waiting
  <1>2. MarketTyped /\ Nobody \in Agents /\ \A s \in MarketSellers : s \in Agents \ {Nobody}
    BY StarterFacts DEF MarketInv
  <1>3. m \in Messages
    BY <1>1, <1>2, HeadFacts
  <1>4. m.verb = "BID" => m.by \in MarketSellers /\ m.price \in Prices
    <2>1. m.verb = "BID" => m \in Bids
      BY <1>3, MessageKinds
    <2> QED BY <2>1 DEF Bids
  <1>. HIDE DEF m
  <1>5. DOMAIN bids' \subseteq MarketSellers /\ \A s \in DOMAIN bids' : bids'[s] \in Prices
    BY <1>1, <1>2, <1>4 DEF MarketTyped, market!selectBids
  <1>6. /\ unread' \in [Agents -> Seq(Mail)] /\ Moves(Read({Nobody}), Sent({}, m))
        /\ \A a \in Agents \ {Nobody} : unread'[a] = unread[a]
    BY <1>1, <1>2, DiscardMoves
  <1>7. ~ Settling' /\ ~ Paying'
    BY <1>1 DEF Settling, Paying
  <1>8. MarketTyped'
    BY <1>1, <1>2, <1>5, <1>6, <1>7, BuyerAlone DEF MarketTyped
  <1>9. \A a \in Agents : Sent({}, m)[a] = {}
    BY DEF Sent
  <1> QED BY <1>1, <1>2, <1>6, <1>8, <1>9, ReadTyped, CalmStep

LEMMA AwardWinnerSafe == ASSUME StarterKitAssumption, MarketInv, market!AwardWinner PROVE MarketInv'
  <1>1. PICK s \in DOMAIN bids :
          winner' = s /\ market!Send([verb |-> "AWARD", round |-> round, to |-> s], {s})
    BY DEF market!AwardWinner
  <1>. DEFINE m == [verb |-> "AWARD", round |-> round, to |-> s]
  <1>2. /\ pc = "bids" /\ pc' = "terms" /\ UNCHANGED <<round, bids, terms, quoted, awarded, job>>
        /\ UNCHANGED <<chain, deposits, releases, works>>
    BY DEF market!AwardWinner, market!NothingPaid, market!OtherThanBuyer, market!sellerVars
  <1>3. MarketTyped /\ round \in Rounds /\ s \in MarketSellers /\ Nobody \in Agents /\ s # Nobody
        /\ \A a \in MarketSellers : a \in Agents
    BY <1>2, StarterFacts DEF MarketInv, MarketTyped
  <1>4. m \in Awards /\ m \in Messages /\ m.verb # "DEPOSITED"
    BY <1>3, MessageKinds DEF Awards
  <1>5. market!Send(m, {s})
    BY <1>1
  <1>. HIDE DEF m
  <1>6. /\ unread' \in [Agents -> Seq(Mail)] /\ threads' \in Seq(Seq(Messages))
        /\ Moves(Read({}), Sent({s}, m)) /\ \A a \in Agents : unread[a] # <<>> => unread'[a] # <<>>
    BY <1>3, <1>4, <1>5, SendMoves
  <1>7. ~ Paying'
    BY <1>2 DEF Paying
  <1>8. MarketTyped'
    BY <1>1, <1>2, <1>3, <1>6, <1>7, BuyerAlone DEF MarketTyped, Settling
  <1>9. \A a \in Agents : \A x \in Sent({s}, m)[a] : a = s /\ x = m
    BY DEF Sent
  <1> QED BY <1>2, <1>3, <1>4, <1>6, <1>8, <1>9, ReadTyped, CalmStep

LEMMA NextRoundSafe == ASSUME StarterKitAssumption, MarketInv, market!NextRound PROVE MarketInv'
  <1>1. /\ market!EndRound /\ pc' = "start"
        /\ UNCHANGED <<round, unread, threads, quoted, awarded, job, chain, deposits, releases, works>>
    BY DEF market!NextRound, market!EndRound, market!NothingPaid, market!OtherThanBuyer, market!sellerVars
  <1>2. MarketTyped /\ Nobody \in Agents /\ \A s \in MarketSellers : s \in Agents
    BY StarterFacts DEF MarketInv
  <1>3. unread' \in [Agents -> Seq(Mail)] /\ Moves(Read({}), Sent({}, 0))
    BY <1>1, <1>2, LostMoves
  <1>4. MarketTyped'
    BY <1>1, <1>2, <1>3, RoundEnds, BuyerAlone DEF MarketTyped
  <1>5. \A a \in Agents : Sent({}, 0)[a] = {}
    BY DEF Sent
  <1> QED BY <1>1, <1>2, <1>3, <1>4, <1>5, ReadTyped, CalmStep

LEMMA ReceiveTermsSafe == ASSUME StarterKitAssumption, MarketInv, market!ReceiveTerms PROVE MarketInv'
  <1>. DEFINE m == market!Heard(Nobody)
  <1>1. /\ pc = "terms" /\ unread[Nobody] # <<>> /\ unread' = [unread EXCEPT ![Nobody] = Tail(@)]
        /\ \/ /\ m.verb = "ESCROW_REQUIRED" /\ m.round = round /\ pc' = "deposit"
              /\ terms' = [by |-> m.by, ref |-> m.ref, price |-> m.price] /\ UNCHANGED <<bids, winner>>
           \/ market!EndRound
           \/ UNCHANGED <<pc, bids, winner, terms>>
        /\ UNCHANGED <<threads, round, quoted, awarded, job, chain, deposits, releases, works>>
    BY DEF market!ReceiveTerms, market!NothingPaid, market!OtherThanBuyer, market!sellerVars,
       market!Discard, market!Waiting
  <1>2. MarketTyped /\ Nobody \in Agents /\ round \in Rounds /\ \A s \in MarketSellers : s \in Agents \ {Nobody}
    BY <1>1, StarterFacts DEF MarketInv, MarketTyped
  <1>3. m \in Messages
    BY <1>1, <1>2, HeadFacts
  <1>4. m.verb = "ESCROW_REQUIRED" => /\ m.by \in MarketSellers /\ m.price \in Prices
                                      /\ m.ref = market!boundReference(m.by, m.round, m.price)
    <2>1. m.verb = "ESCROW_REQUIRED" => m \in Terms
      BY <1>3, MessageKinds
    <2> QED BY <2>1 DEF Terms
  <1>. HIDE DEF m
  <1>5. /\ unread' \in [Agents -> Seq(Mail)] /\ Moves(Read({Nobody}), Sent({}, m))
        /\ \A a \in Agents \ {Nobody} : unread'[a] = unread[a]
    BY <1>1, <1>2, DiscardMoves
  <1>6. MarketTyped' /\ pc' # "release"
    <2>1. CASE m.verb = "ESCROW_REQUIRED" /\ m.round = round /\ pc' = "deposit"
               /\ terms' = [by |-> m.by, ref |-> m.ref, price |-> m.price] /\ UNCHANGED <<bids, winner>>
      BY <1>1, <1>2, <1>4, <1>5, <2>1, BuyerAlone DEF MarketTyped, Settling
    <2>2. CASE market!EndRound
      BY <1>1, <1>2, <1>5, <2>2, RoundEnds, BuyerAlone DEF MarketTyped
    <2>3. CASE UNCHANGED <<pc, bids, winner, terms>>
      <3>1. Settling' = Settling /\ ~ Paying'
        BY <1>1, <2>3 DEF Settling, Paying
      <3> QED BY <1>1, <1>2, <1>5, <2>3, <3>1, BuyerAlone DEF MarketTyped
    <2> QED BY <1>1, <2>1, <2>2, <2>3
  <1>7. \A a \in Agents : Sent({}, m)[a] = {}
    BY DEF Sent
  <1> QED BY <1>1, <1>2, <1>5, <1>6, <1>7, ReadTyped, CalmStep

LEMMA AwaitDeliverySafe == ASSUME StarterKitAssumption, MarketInv, market!AwaitDelivery PROVE MarketInv'
  <1>. DEFINE m == market!Heard(Nobody)
  <1>1. /\ pc = "delivery" /\ unread[Nobody] # <<>> /\ unread' = [unread EXCEPT ![Nobody] = Tail(@)]
        /\ pc' = IF m.verb = "DELIVERED" /\ m.round = round THEN "release" ELSE pc
        /\ UNCHANGED <<threads, round, bids, winner, terms, quoted, awarded, job>>
        /\ UNCHANGED <<chain, deposits, releases, works>>
    BY DEF market!AwaitDelivery, market!NothingPaid, market!OtherThanBuyer, market!sellerVars,
       market!Discard, market!Waiting
  <1>2. MarketTyped /\ Nobody \in Agents /\ round \in Rounds /\ \A s \in MarketSellers : s \in Agents \ {Nobody}
    BY <1>1, StarterFacts DEF MarketInv, MarketTyped
  <1>3. m \in Messages /\ Has(Nobody, m)
    BY <1>1, <1>2, HeadFacts
  <1>4. m.verb = "DELIVERED" => WorkedIn(m.round)
    <2>1. m.verb = "DELIVERED" => m \in Deliveries
      BY <1>3, MessageKinds
    <2> QED BY <1>3, <2>1 DEF MarketInv, Worked
  <1>. HIDE DEF m
  <1>5. /\ unread' \in [Agents -> Seq(Mail)] /\ Moves(Read({Nobody}), Sent({}, m))
        /\ \A a \in Agents \ {Nobody} : unread'[a] = unread[a]
    BY <1>1, <1>2, DiscardMoves
  <1>6. MarketTyped'
    BY <1>1, <1>2, <1>5, BuyerAlone DEF MarketTyped, Settling, Paying
  <1>7. \A a \in Agents : Sent({}, m)[a] = {}
    BY DEF Sent
  <1>8. pc' = "release" => WorkedIn(round')
    BY <1>1, <1>4
  <1> QED BY <1>1, <1>2, <1>5, <1>6, <1>7, <1>8, ReadTyped, CalmStep

LEMMA TermsFacts ==
  ASSUME StarterKitAssumption, MarketTyped, Paying
  PROVE  /\ TermsEscrow \in Escrows /\ TermsEscrow[2][1] = round /\ terms.price \in Nat /\ terms.price > 0
         /\ winner \in MarketSellers /\ round \in Rounds
         /\ market!deposit \/ market!openArbitrated => market!Lock(TermsEscrow)
         /\ market!release \/ market!arbitrateRelease => market!Unlock(TermsEscrow)
  <1>1. /\ terms.by \in MarketSellers /\ terms.price \in Prices /\ round \in Rounds
        /\ terms.ref = market!boundReference(terms.by, round, terms.price) /\ winner \in MarketSellers
    BY DEF MarketTyped, Paying, Settling
  <1>2. TermsEscrow \in {<<TRUE, terms.ref>>, <<FALSE, terms.ref>>}
    BY DEF TermsEscrow, market!EscrowFor, market!arbitratedEscrowPda, market!escrowPda
  <1>3. TermsEscrow \in Escrows /\ TermsEscrow[2][1] = round
    <2>1. terms.ref \in market!References /\ terms.ref[1] = round
      BY <1>1, StarterFacts
    <2>2. TermsEscrow \in BOOLEAN \X market!References /\ TermsEscrow[2] = terms.ref
      <3>1. \A b \in BOOLEAN : <<b, terms.ref>> \in BOOLEAN \X market!References
        BY <2>1
      <3>2. \E b \in BOOLEAN : TermsEscrow = <<b, terms.ref>>
        BY <1>2
      <3> QED BY <3>1, <3>2
    <2> QED BY <2>1, <2>2, StarterFacts
  <1>4. /\ market!deposit \/ market!openArbitrated => market!Lock(TermsEscrow)
        /\ market!release \/ market!arbitrateRelease => market!Unlock(TermsEscrow)
    BY DEF TermsEscrow, market!EscrowFor, market!deposit, market!openArbitrated, market!release,
       market!arbitrateRelease
  <1> QED BY <1>1, <1>3, <1>4, StarterFacts

\* What the announcement of a payment moves.
LEMMA AnnounceMoves ==
  ASSUME StarterKitAssumption, MarketTyped, Paying,
         NEW v \in {"DEPOSITED", "RELEASED", "ARBITER_RELEASED"}, market!Announce(v, winner)
  PROVE  /\ unread' \in [Agents -> Seq(Mail)] /\ threads' \in Seq(Seq(Messages))
         /\ Moves(Read({}), Sent({winner}, [verb |-> v, round |-> round, escrow |-> TermsEscrow]))
         /\ \A a \in Agents : unread[a] # <<>> => unread'[a] # <<>>
  <1>. DEFINE m == [verb |-> v, round |-> round, escrow |-> TermsEscrow]
  <1>1. m \in Payments /\ m \in Messages
    BY TermsFacts, MessageKinds DEF Payments
  <1>2. market!Send(m, {winner})
    BY DEF market!Announce, TermsEscrow
  <1>. HIDE DEF m
  <1>3. /\ unread' \in [Agents -> Seq(Mail)] /\ threads' \in Seq(Seq(Messages))
        /\ Moves(Read({}), Sent({winner}, m))
        /\ \A a \in Agents : unread[a] # <<>> => unread'[a] # <<>>
    BY <1>1, <1>2, SendMoves
  <1> QED BY <1>3 DEF m

LEMMA DepositSafe == ASSUME StarterKitAssumption, MarketInv, market!Deposit PROVE MarketInv'
  <1>0. PICK e0 : e0 = TermsEscrow
    OBVIOUS
  <1>. DEFINE m == [verb |-> "DEPOSITED", round |-> round, escrow |-> e0]
  <1>1. /\ pc = "deposit" /\ (market!deposit \/ market!openArbitrated)
        /\ \/ market!Announce("DEPOSITED", winner) /\ pc' = "delivery" /\ UNCHANGED <<bids, winner, terms>>
           \/ UNCHANGED <<unread, threads>> /\ market!EndRound
        /\ UNCHANGED <<round, quoted, awarded, job, releases, works>>
    BY DEF market!Deposit, market!OtherThanBuyer, market!sellerVars
  <1>2. MarketTyped /\ Paying /\ \A s \in MarketSellers : s \in Agents /\ s # Nobody
    BY <1>1, StarterFacts DEF MarketInv, Paying
  <1>3. /\ e0 \in Escrows /\ terms.price \in Nat /\ terms.price > 0 /\ winner \in MarketSellers
        /\ round \in Rounds /\ market!Lock(e0)
    BY <1>0, <1>1, <1>2, TermsFacts
  <1>4. /\ chain[e0] = 0 /\ chain' = [chain EXCEPT ![e0] = terms.price]
        /\ deposits' = [deposits EXCEPT ![e0] = deposits[e0] + 1]
    BY <1>3 DEF market!Lock
  <1>5. /\ unread' \in [Agents -> Seq(Mail)] /\ threads' \in Seq(Seq(Messages))
        /\ Moves(Read({}), Sent({winner}, m)) /\ \A a \in Agents : unread[a] # <<>> => unread'[a] # <<>>
    <2>1. CASE market!Announce("DEPOSITED", winner)
      BY <1>2, <2>1, <1>0, AnnounceMoves
    <2>2. CASE UNCHANGED <<unread, threads>>
      <3>1. Nobody \in Agents
        BY StarterFacts
      <3> QED BY <1>2, <2>2, <3>1, LostMoves DEF MarketTyped
    <2> QED BY <1>1, <2>1, <2>2
  <1>6. {chain, deposits, works, releases}' \subseteq [Escrows -> Nat]
    BY <1>1, <1>2, <1>3, <1>4 DEF MarketTyped
  <1>7. MarketTyped' /\ pc' # "release"
    <2>1. CASE pc' = "delivery" /\ UNCHANGED <<bids, winner, terms>>
      BY <1>1, <1>2, <1>3, <1>5, <1>6, <2>1, BuyerAlone DEF MarketTyped, Settling, Paying
    <2>2. CASE market!EndRound
      BY <1>1, <1>2, <1>3, <1>5, <1>6, <2>2, RoundEnds, BuyerAlone DEF MarketTyped
    <2> QED BY <1>1, <2>1, <2>2
  <1>8. ASSUME NEW e \in Escrows, e # e0 PROVE Covered(e)'
    <2>1. \A s \in MarketSellers : \A x \in Sent({winner}, m)[s] : ~ (x.verb = "DEPOSITED" /\ x.escrow = e)
      BY <1>2, <1>8 DEF Sent
    <2>2. IsFiniteSet(ToDo(e)') /\ Cardinality(ToDo(e)') <= Cardinality(ToDo(e))
      <3>1. \A s \in MarketSellers : job[s] # NoJob => job'[s] # NoJob
        BY <1>1
      <3>. HIDE DEF m
      <3> QED BY <1>2, <1>5, <2>1, <3>1, ToDoCounted, ReadTyped, LessToDo
    <2>3. Cardinality(ToDo(e)') \in Nat
      BY <2>2, FS_CardinalityType
    <2>4. chain'[e] = chain[e] /\ deposits'[e] = deposits[e]
      BY <1>2, <1>3, <1>4, <1>8 DEF MarketTyped
    <2> QED BY <1>1, <2>2, <2>3, <2>4, ToDoCounted DEF Covered
  <1>9. Covered(e0)'
    <2>. DEFINE new == <<winner, Len(unread[winner]) + 1>>
    <2>1. ToDo(e0)' \subseteq ToDo(e0) \cup {new}
      <3>1. ASSUME NEW s \in MarketSellers, NEW n \in Nat, IsToDo(e0, s, n)'
            PROVE  <<s, n>> \in ToDo(e0) \cup {new}
        <4>1. /\ n \in DOMAIN unread'[s] /\ (n = 1 => job[s] = NoJob)
              /\ unread'[s][n].m.verb = "DEPOSITED" /\ unread'[s][n].m.escrow = e0
          BY <1>1, <1>3, <3>1 DEF IsToDo, NoJob, market!NoJob
        <4>2. IF n \in DOMAIN unread[s] THEN unread'[s][n] = unread[s][n]
              ELSE n = Len(unread[s]) + 1 /\ unread'[s][n].m \in Sent({winner}, m)[s]
          <5>1. Read({})[s] = 0 /\ n + 0 = n
            BY <1>2 DEF Read
          <5> QED BY <1>2, <1>5, <4>1, <5>1 DEF Moves
        <4>3. CASE n \in DOMAIN unread[s]
          BY <4>1, <4>2, <4>3 DEF ToDo, IsToDo
        <4>4. CASE n \notin DOMAIN unread[s]
          <5>1. s = winner
            BY <1>2, <4>2, <4>4 DEF Sent
          <5> QED BY <4>2, <4>4, <5>1
        <4> QED BY <4>3, <4>4
      <3> QED BY <3>1 DEF ToDo
    <2>2. /\ IsFiniteSet(ToDo(e0) \cup {new})
          /\ Cardinality(ToDo(e0) \cup {new}) <= Cardinality(ToDo(e0)) + 1
      <3>1. IsFiniteSet(ToDo(e0)) /\ Cardinality(ToDo(e0)) \in Nat
        BY <1>3, ToDoCounted
      <3>2. /\ IsFiniteSet(ToDo(e0) \cup {new})
            /\ Cardinality(ToDo(e0) \cup {new}) =
                 IF new \in ToDo(e0) THEN Cardinality(ToDo(e0)) ELSE Cardinality(ToDo(e0)) + 1
        BY <3>1, FS_AddElement
      <3> QED BY <3>1, <3>2
    <2>3. /\ IsFiniteSet(ToDo(e0)')
          /\ Cardinality(ToDo(e0)') <= Cardinality(ToDo(e0) \cup {new})
      BY <2>1, <2>2, FS_Subset
    <2>4. Cardinality(ToDo(e0)') \in Nat /\ Cardinality(ToDo(e0) \cup {new}) \in Nat
      BY <2>2, <2>3, FS_CardinalityType
    <2>5. Cardinality(ToDo(e0)') <= Cardinality(ToDo(e0)) + 1
      BY <1>3, <2>2, <2>3, <2>4, ToDoCounted
    <2>6. chain'[e0] > 0 /\ deposits'[e0] = deposits[e0] + 1 /\ works'[e0] = works[e0] /\ releases'[e0] = releases[e0]
      BY <1>1, <1>2, <1>3, <1>4 DEF MarketTyped
    <2>7. works'[e0] + Cardinality(ToDo(e0)') <= deposits'[e0]
      BY <1>3, <2>4, <2>5, <2>6, ToDoCounted
    <2>8. deposits'[e0] = releases'[e0] + 1
      BY <1>3, <1>4, <2>6, ToDoCounted
    <2> QED BY <2>3, <2>6, <2>7, <2>8 DEF Covered
  <1>10. Worked'
    <2>1. \A x \in Sent({winner}, m)[Nobody] : FALSE
      <3>1. Nobody \in Agents /\ winner # Nobody
        BY <1>2, <1>3, StarterFacts
      <3> QED BY <3>1 DEF Sent
    <2>. HIDE DEF m
    <2> QED BY <1>1, <1>5, <1>7, <2>1, WorkedKept
  <1> QED BY <1>7, <1>8, <1>9, <1>10 DEF MarketInv, Escrows, market!Escrows

LEMMA ReleaseFundsSafe == ASSUME StarterKitAssumption, MarketInv, market!ReleaseFunds PROVE MarketInv'
  <1>0. PICK e0 : e0 = TermsEscrow
    OBVIOUS
  <1>1. PICK v \in {"RELEASED", "ARBITER_RELEASED"} :
          market!Announce(v, winner) \/ UNCHANGED <<unread, threads>>
    BY DEF market!ReleaseFunds
  <1>2. /\ pc = "release" /\ (market!release \/ market!arbitrateRelease) /\ market!EndRound
        /\ UNCHANGED <<round, quoted, awarded, job, deposits, works>>
    BY DEF market!ReleaseFunds, market!OtherThanBuyer, market!sellerVars
  <1>. DEFINE m == [verb |-> v, round |-> round, escrow |-> e0]
  <1>3. MarketTyped /\ Paying /\ \A s \in MarketSellers : s \in Agents /\ s # Nobody
    BY <1>2, StarterFacts DEF MarketInv, Paying
  <1>4. /\ e0 \in Escrows /\ winner \in MarketSellers /\ chain[e0] > 0
        /\ chain' = [chain EXCEPT ![e0] = 0] /\ releases' = [releases EXCEPT ![e0] = releases[e0] + 1]
    BY <1>0, <1>2, <1>3, TermsFacts DEF market!Unlock
  <1>5. m.verb # "DEPOSITED" /\ \A a \in Agents : \A x \in Sent({winner}, m)[a] : x = m /\ a = winner
    BY <1>1 DEF Sent
  <1>6. /\ unread' \in [Agents -> Seq(Mail)] /\ threads' \in Seq(Seq(Messages))
        /\ Moves(Read({}), Sent({winner}, m)) /\ \A a \in Agents : unread[a] # <<>> => unread'[a] # <<>>
    <2>1. CASE market!Announce(v, winner)
      BY <1>0, <1>3, <2>1, AnnounceMoves
    <2>2. CASE UNCHANGED <<unread, threads>>
      <3>1. Nobody \in Agents
        BY StarterFacts
      <3> QED BY <1>3, <2>2, <3>1, LostMoves DEF MarketTyped
    <2> QED BY <1>1, <2>1, <2>2
  <1>. HIDE DEF m
  <1>7. {chain, deposits, works, releases}' \subseteq [Escrows -> Nat]
    BY <1>2, <1>3, <1>4 DEF MarketTyped
  <1>8. MarketTyped'
    BY <1>2, <1>3, <1>6, <1>7, RoundEnds, BuyerAlone DEF MarketTyped
  <1>9. ASSUME NEW e \in Escrows PROVE Covered(e)'
    <2>1. \A s \in MarketSellers : \A x \in Sent({winner}, m)[s] : ~ (x.verb = "DEPOSITED" /\ x.escrow = e)
      BY <1>3, <1>5
    <2>2. \A s \in MarketSellers : job[s] # NoJob => job'[s] # NoJob
      BY <1>2
    <2>3. IsFiniteSet(ToDo(e)') /\ Cardinality(ToDo(e)') <= Cardinality(ToDo(e))
      BY <1>3, <1>6, <2>1, <2>2, ToDoCounted, ReadTyped, LessToDo
    <2>4. Cardinality(ToDo(e)') \in Nat
      BY <2>3, FS_CardinalityType
    <2>5. /\ e = e0 => chain[e] > 0 /\ chain'[e] = 0 /\ releases'[e] = releases[e] + 1
          /\ e # e0 => chain'[e] = chain[e] /\ releases'[e] = releases[e]
      BY <1>3, <1>4 DEF MarketTyped
    <2>6. works'[e] = works[e] /\ deposits'[e] = deposits[e]
      BY <1>2
    <2>7. works'[e] + Cardinality(ToDo(e)') <= deposits'[e]
      BY <2>3, <2>4, <2>6, ToDoCounted
    <2>8. deposits'[e] = releases'[e] + (IF chain'[e] > 0 THEN 1 ELSE 0)
      BY <2>5, <2>6, ToDoCounted
    <2> QED BY <2>3, <2>7, <2>8 DEF Covered
  <1>10. Worked'
    <2>1. \A x \in Sent({winner}, m)[Nobody] : FALSE
      <3>1. Nobody \in Agents /\ winner # Nobody
        BY <1>3, <1>4, StarterFacts
      <3> QED BY <1>5, <3>1
    <2> QED BY <1>2, <1>6, <2>1, RoundEnds, WorkedKept
  <1> QED BY <1>8, <1>9, <1>10 DEF MarketInv, Escrows, market!Escrows

LEMMA BuyerRestartsSafe == ASSUME StarterKitAssumption, MarketInv, market!BuyerRestarts PROVE MarketInv'
  <1>1. /\ market!EndRound /\ round' = 0 /\ threads' = Append(threads, <<>>)
        /\ unread' \in {unread, [unread EXCEPT ![Nobody] = <<>>]}
        /\ UNCHANGED <<quoted, awarded, job, chain, deposits, releases, works>>
    BY DEF market!BuyerRestarts, market!sellerVars, market!history
  <1>2. MarketTyped /\ Nobody \in Agents /\ \A s \in MarketSellers : s \in Agents \ {Nobody}
    BY StarterFacts DEF MarketInv
  <1>3. /\ unread' \in [Agents -> Seq(Mail)] /\ Moves(Read({}), Sent({}, 0))
        /\ \A s \in MarketSellers : unread'[s] = unread[s]
    BY <1>1, <1>2, LostMoves
  <1>4. threads' \in Seq(Seq(Messages))
    BY <1>1, <1>2, AppendProperties, EmptySeq DEF MarketTyped
  <1>5. round' \in 0 .. MaxRound
    BY <1>1, StarterFacts
  <1>6. MarketTyped'
    BY <1>1, <1>2, <1>3, <1>4, <1>5, RoundEnds, BuyerAlone DEF MarketTyped
  <1>7. \A a \in Agents : Sent({}, 0)[a] = {}
    BY DEF Sent
  <1> QED BY <1>1, <1>2, <1>3, <1>6, <1>7, RoundEnds, ReadTyped, CalmStep

\* The shape of the state after a step of seller s alone.
LEMMA SellerAlone ==
  ASSUME StarterKitAssumption, MarketTyped, UNCHANGED <<pc, round, bids, winner, terms, chain, deposits, releases>>,
         NEW s \in MarketSellers,
         quoted' \in [MarketSellers -> [Rounds -> 0 .. Budget]],
         awarded' \in [MarketSellers -> SUBSET market!References],
         job' \in [MarketSellers -> [ref : market!References, round : Rounds] \cup {NoJob}],
         works' \in [Escrows -> Nat],
         unread' \in [Agents -> Seq(Mail)], threads' \in Seq(Seq(Messages)),
         job'[s] # NoJob => unread'[s] # <<>>,
         \A t \in MarketSellers \ {s} : job'[t] = job[t] /\ unread'[t] = unread[t]
  PROVE  MarketTyped'
  <1>1. Settling' = Settling /\ Paying' = Paying
    BY DEF Settling, Paying
  <1>2. \A t \in MarketSellers : job'[t] # NoJob' => unread'[t] # <<>>
    BY DEF MarketTyped, NoJob, market!NoJob
  <1>3. /\ market!boundReference(terms.by, round, terms.price)' = market!boundReference(terms.by, round, terms.price)
        /\ NoJob' = NoJob
    BY DEF market!boundReference, NoJob, market!NoJob
  <1> QED BY <1>1, <1>2, <1>3 DEF MarketTyped

\* What a seller reads in its mailbox, when it is ready to.
LEMMA HearsFacts ==
  ASSUME StarterKitAssumption, MarketTyped, NEW s \in MarketSellers, NEW v, market!Hears(s, v)
  PROVE  /\ s \in Agents /\ unread[s] # <<>> /\ job[s] = NoJob /\ market!Heard(s).verb = v
         /\ market!Heard(s) \in Messages /\ Has(s, market!Heard(s))
         /\ market!Heard(s) = unread[s][1].m /\ 1 \in DOMAIN unread[s]
  <1>1. s \in Agents /\ unread[s] # <<>> /\ job[s] = NoJob /\ market!Heard(s).verb = v
    BY StarterFacts DEF market!Hears, market!Waiting, NoJob
  <1> QED BY <1>1, HeadFacts

\* The step of a seller that has read what it heard and says m, if anything.
LEMMA SellerCalm ==
  ASSUME StarterKitAssumption, MarketInv, NEW s \in MarketSellers, unread[s] # <<>>,
         NEW m, NEW to,
         \/ to = {} /\ market!Discard(s)
         \/ /\ to = {Nobody} /\ m \in Messages /\ market!Reply(s, m)
            /\ m \in Deliveries => WorkedIn(m.round),
         quoted' \in [MarketSellers -> [Rounds -> 0 .. Budget]],
         awarded' \in [MarketSellers -> SUBSET market!References],
         job' = [job EXCEPT ![s] = NoJob],
         UNCHANGED <<pc, round, bids, winner, terms, chain, deposits, releases, works>>
  PROVE  MarketInv'
  <1>1. MarketTyped /\ s \in Agents /\ Nobody \in Agents /\ \A t \in MarketSellers : t \in Agents /\ t # Nobody
    BY StarterFacts DEF MarketInv
  <1>2. /\ unread' \in [Agents -> Seq(Mail)] /\ threads' \in Seq(Seq(Messages))
        /\ Moves(Read({s}), Sent(to, m))
        /\ \A a \in MarketSellers \ {s} : unread'[a] = unread[a]
    <2>1. CASE to = {Nobody} /\ m \in Messages /\ market!Reply(s, m)
      BY <1>1, <2>1, ReplyMoves
    <2>2. CASE market!Discard(s)
      <3>1. unread' = [unread EXCEPT ![s] = Tail(@)] /\ UNCHANGED threads
        BY <2>2 DEF market!Discard
      <3> QED BY <1>1, <3>1, DiscardMoves DEF MarketTyped
    <2> QED BY <2>1, <2>2
  <1>3. /\ job' \in [MarketSellers -> [ref : market!References, round : Rounds] \cup {NoJob}]
        /\ job'[s] = NoJob /\ \A t \in MarketSellers \ {s} : job'[t] = job[t]
    BY <1>1 DEF MarketTyped
  <1>4. MarketTyped'
    BY <1>1, <1>2, <1>3, SellerAlone DEF MarketTyped
  <1>5. \A a \in Agents : \A x \in Sent(to, m)[a] : a = Nobody /\ x = m /\ (m \in Deliveries => WorkedIn(m.round))
    BY DEF Sent
  <1>6. Read({s})[s] = 1
    BY <1>1 DEF Read
  <1>7. pc' = "release" => WorkedIn(round')
    BY DEF MarketInv, Worked
  <1> QED BY <1>1, <1>2, <1>3, <1>4, <1>5, <1>6, <1>7, ReadTyped, CalmStep

LEMMA BidSafe ==
  ASSUME StarterKitAssumption, MarketInv, NEW s \in MarketSellers, market!Bid(s) PROVE MarketInv'
  <1>. DEFINE h == market!Heard(s)
  <1>1. /\ market!Hears(s, "WANT") /\ UNCHANGED <<awarded, job, works, pc, round, bids, winner, terms>>
        /\ UNCHANGED <<chain, deposits, releases>>
    BY DEF market!Bid, market!OtherThanSeller, market!buyerVars
  <1>2. MarketTyped
    BY DEF MarketInv
  <1>3. unread[s] # <<>> /\ job[s] = NoJob /\ h \in Wants
    BY <1>1, <1>2, HearsFacts, MessageKinds
  <1>4. h.round \in Rounds /\ job' = [job EXCEPT ![s] = NoJob] /\ h \in Messages /\ h.verb = "WANT"
    BY <1>1, <1>2, <1>3, MessageKinds DEF Wants, MarketTyped
  <1>5. CASE market!Discard(s) /\ UNCHANGED quoted
    BY <1>1, <1>2, <1>3, <1>4, <1>5, SellerCalm DEF MarketTyped
  <1>6. ASSUME NEW p \in market!decideBid(s),
               quoted' = [quoted EXCEPT ![s][h.round] = p],
               market!Reply(s, [verb |-> "BID", round |-> h.round, by |-> s, price |-> p])
        PROVE  MarketInv'
    <2>. DEFINE m == [verb |-> "BID", round |-> h.round, by |-> s, price |-> p]
    <2>1. p \in Prices /\ p \in 0 .. Budget
      BY StarterFacts DEF market!decideBid, Prices
    <2>2. m \in Bids /\ m \in Messages /\ m \notin Deliveries
      <3>1. m \in Bids /\ m.verb = "BID"
        BY <1>4, <2>1 DEF Bids
      <3> QED BY <3>1, MessageKinds
    <2>3. quoted' \in [MarketSellers -> [Rounds -> 0 .. Budget]]
      BY <1>2, <1>4, <1>6, <2>1 DEF MarketTyped
    <2>4. market!Reply(s, m)
      BY <1>6
    <2>. HIDE DEF m
    <2> QED BY <1>1, <1>2, <1>3, <1>4, <2>2, <2>3, <2>4, SellerCalm DEF MarketTyped
  <1> QED BY <1>5, <1>6 DEF market!Bid

LEMMA QuoteSafe ==
  ASSUME StarterKitAssumption, MarketInv, NEW s \in MarketSellers, market!Quote(s) PROVE MarketInv'
  <1>. DEFINE r == market!Heard(s).round
              price == quoted[s][r]
              ref == market!boundReference(s, r, price)
  <1>1. /\ market!Hears(s, "AWARD") /\ UNCHANGED <<job, works, pc, round, bids, winner, terms>>
        /\ UNCHANGED <<chain, deposits, releases>>
        /\ IF price = 0 THEN market!Discard(s) /\ UNCHANGED <<quoted, awarded>>
           ELSE /\ awarded' = [awarded EXCEPT ![s] = awarded[s] \cup {ref}]
                /\ quoted' = [quoted EXCEPT ![s][r] = 0]
                /\ market!Reply(s, [verb |-> "ESCROW_REQUIRED", round |-> r, by |-> s, ref |-> ref,
                                    price |-> price])
    BY DEF market!Quote, market!OtherThanSeller, market!buyerVars, MarketInv, MarketTyped
  <1>2. MarketTyped
    BY DEF MarketInv
  <1>3. unread[s] # <<>> /\ job[s] = NoJob /\ market!Heard(s) \in Awards
    BY <1>1, <1>2, HearsFacts, MessageKinds
  <1>4. r \in Rounds /\ job' = [job EXCEPT ![s] = NoJob] /\ price \in 0 .. Budget
    BY <1>1, <1>2, <1>3, MessageKinds DEF Awards, MarketTyped
  <1>5. CASE price = 0
    BY <1>1, <1>2, <1>3, <1>4, <1>5, SellerCalm DEF MarketTyped
  <1>6. CASE price # 0
    <2>. DEFINE m == [verb |-> "ESCROW_REQUIRED", round |-> r, by |-> s, ref |-> ref, price |-> price]
    <2>1. price \in Prices /\ 0 \in 0 .. Budget
      BY <1>4, <1>6, StarterFacts
    <2>2. ref \in market!References
      BY <1>4, <2>1, StarterFacts
    <2>3. m \in Terms /\ m \in Messages /\ m \notin Deliveries
      <3>1. m \in Terms /\ m.verb = "ESCROW_REQUIRED"
        BY <1>4, <2>1, <2>2 DEF Terms
      <3> QED BY <3>1, MessageKinds
    <2>4. /\ quoted' \in [MarketSellers -> [Rounds -> 0 .. Budget]]
          /\ awarded' \in [MarketSellers -> SUBSET market!References]
      <3>1. quoted' = [quoted EXCEPT ![s][r] = 0] /\ awarded' = [awarded EXCEPT ![s] = awarded[s] \cup {ref}]
        BY <1>1, <1>6
      <3>2. /\ quoted \in [MarketSellers -> [Rounds -> 0 .. Budget]]
            /\ awarded \in [MarketSellers -> SUBSET market!References]
        BY <1>2 DEF MarketTyped
      <3>. HIDE DEF price, r, ref
      <3>3. quoted' \in [MarketSellers -> [Rounds -> 0 .. Budget]]
        BY <1>4, <2>1, <3>1, <3>2
      <3>4. awarded' \in [MarketSellers -> SUBSET market!References]
        BY <2>2, <3>1, <3>2
      <3> QED BY <3>3, <3>4
    <2>5. market!Reply(s, m)
      BY <1>1, <1>6
    <2>. HIDE DEF m, price, r, ref
    <2> QED BY <1>1, <1>3, <1>4, <2>3, <2>4, <2>5, SellerCalm
  <1> QED BY <1>5, <1>6

LEMMA RefuseDepositSafe ==
  ASSUME StarterKitAssumption, MarketInv, NEW s \in MarketSellers,
         market!RefuseDeposit(s) \/ market!IgnoreMention(s)
  PROVE  MarketInv'
  <1>1. /\ job[s] = NoJob /\ unread[s] # <<>> /\ market!Heard(s).verb \notin {"WANT", "AWARD"}
        /\ market!Discard(s) /\ UNCHANGED <<quoted, awarded, job, works, pc, round, bids, winner, terms>>
        /\ UNCHANGED <<chain, deposits, releases>>
    BY DEF market!RefuseDeposit, market!IgnoreMention, market!OtherThanSeller, market!buyerVars,
       market!sellerVars, market!ReplyError, market!Hears, market!Waiting, NoJob
  <1>2. MarketTyped /\ s \in Agents
    BY StarterFacts DEF MarketInv
  <1>3. job' = [job EXCEPT ![s] = NoJob]
    BY <1>1, <1>2 DEF MarketTyped
  <1> QED BY <1>1, <1>2, <1>3, SellerCalm DEF MarketTyped

LEMMA WorkSafe ==
  ASSUME StarterKitAssumption, MarketInv, NEW s \in MarketSellers, market!Work(s) PROVE MarketInv'
  <1>. DEFINE h == market!Heard(s)
              e0 == h.escrow
              ref == e0[2]
  <1>1. /\ market!Hears(s, "DEPOSITED") /\ ref \in awarded[s]
        /\ awarded' = [awarded EXCEPT ![s] = awarded[s] \ {ref}]
        /\ job' = [job EXCEPT ![s] = [ref |-> ref, round |-> h.round]]
        /\ works' = [works EXCEPT ![e0] = works[e0] + 1]
        /\ UNCHANGED <<quoted, unread, threads, pc, round, bids, winner, terms, chain, deposits, releases>>
    BY DEF market!Work, market!OtherThanSeller, market!buyerVars
  <1>2. MarketTyped /\ s \in Agents /\ \A t \in MarketSellers : t \in Agents
    BY StarterFacts DEF MarketInv
  <1>3. /\ unread[s] # <<>> /\ job[s] = NoJob /\ h.verb = "DEPOSITED" /\ h = unread[s][1].m
        /\ h \in Messages /\ 1 \in DOMAIN unread[s]
    BY <1>1, <1>2, HearsFacts
  <1>4. h.round \in Rounds /\ e0 \in Escrows /\ ref[1] = h.round
    <2>1. h \in Payments
      BY <1>3, MessageKinds
    <2> QED BY <2>1 DEF Payments
  <1>5. [ref |-> ref, round |-> h.round] \in [ref : market!References, round : Rounds]
    <2>1. ref \in market!References
      BY <1>1, <1>2 DEF MarketTyped
    <2> QED BY <1>4, <2>1
  <1>6. <<s, 1>> \in ToDo(e0)
    BY <1>2, <1>3 DEF ToDo, IsToDo
  <1>. HIDE DEF h
  <1>7. [ref |-> ref, round |-> h.round] # NoJob
    <2>1. 0 \notin Rounds
      BY StarterFacts
    <2> QED BY <1>4, <2>1 DEF NoJob, market!NoJob
  <1>8. PICK e1 : e1 = e0
    OBVIOUS
  <1>9. /\ job'[s] # NoJob /\ job'[s].round = e1[2][1] /\ \A t \in MarketSellers \ {s} : job'[t] = job[t]
        /\ works' \in [Escrows -> Nat]
        /\ works'[e1] = works[e1] + 1 /\ \A e \in Escrows \ {e1} : works'[e] = works[e]
    BY <1>1, <1>2, <1>4, <1>7, <1>8 DEF MarketTyped
  <1>10. MarketTyped'
    <2>1. awarded' \in [MarketSellers -> SUBSET market!References]
      BY <1>1, <1>2 DEF MarketTyped
    <2>2. job' \in [MarketSellers -> [ref : market!References, round : Rounds] \cup {NoJob}]
      BY <1>1, <1>2, <1>5 DEF MarketTyped
    <2> QED BY <1>1, <1>2, <1>3, <1>9, <2>1, <2>2, SellerAlone DEF MarketTyped
  <1>11. ASSUME NEW e \in Escrows PROVE ToDo(e)' \subseteq ToDo(e) \ {<<s, 1>>}
    <2>1. ASSUME NEW t \in MarketSellers, NEW n \in Nat, IsToDo(e, t, n)'
          PROVE  IsToDo(e, t, n) /\ <<t, n>> # <<s, 1>>
      <3>1. n = 1 => job'[t] = NoJob
        BY <2>1 DEF IsToDo, NoJob, market!NoJob
      <3>2. n = 1 => t # s /\ job[t] = NoJob
        BY <1>9, <3>1
      <3> QED BY <1>1, <2>1, <3>2 DEF IsToDo
    <2> QED BY <2>1 DEF ToDo
  <1>12. ASSUME NEW e \in Escrows PROVE Covered(e)'
    <2>1. IsFiniteSet(ToDo(e)) /\ Cardinality(ToDo(e)) \in Nat
      BY ToDoCounted
    <2>2. /\ IsFiniteSet(ToDo(e) \ {<<s, 1>>}) /\ Cardinality(ToDo(e) \ {<<s, 1>>}) =
            IF <<s, 1>> \in ToDo(e) THEN Cardinality(ToDo(e)) - 1 ELSE Cardinality(ToDo(e))
      BY <2>1, FS_RemoveElement
    <2>3. IsFiniteSet(ToDo(e)') /\ Cardinality(ToDo(e)') <= Cardinality(ToDo(e) \ {<<s, 1>>})
      BY <1>11, <2>2, FS_Subset
    <2>4. Cardinality(ToDo(e)') \in Nat /\ Cardinality(ToDo(e) \ {<<s, 1>>}) \in Nat
      BY <2>2, <2>3, FS_CardinalityType
    <2>5. works'[e] + Cardinality(ToDo(e)') <= deposits[e]
      <3>1. CASE e = e1
        BY <1>6, <1>8, <1>9, <2>1, <2>2, <2>3, <2>4, <3>1, ToDoCounted
      <3>2. CASE e # e1
        BY <1>9, <2>1, <2>2, <2>3, <2>4, <3>2, ToDoCounted
      <3> QED BY <3>1, <3>2
    <2> QED BY <1>1, <2>3, <2>5, ToDoCounted DEF Covered
  <1>13. Worked'
    <2>1. Moves(Read({}), Sent({}, 0))
      BY <1>1, <1>2, LostMoves
    <2>2. \A e \in Escrows : works[e] > 0 => works'[e] > 0
      BY <1>9, ToDoCounted
    <2>3. \E e \in Escrows : e[2][1] = job'[s].round /\ works'[e] > 0
      BY <1>4, <1>8, <1>9, ToDoCounted
    <2>4. Sent({}, 0)[Nobody] = {}
      BY StarterFacts DEF Sent
    <2>5. pc' = "release" => WorkedIn(round')
      BY <1>1 DEF MarketInv, Worked
    <2>6. \A t \in MarketSellers : job'[t] = job[t] \/ job'[t] = NoJob
           \/ \E e \in Escrows : e[2][1] = job'[t].round /\ works'[e] > 0
      BY <1>9, <2>3
    <2> QED BY <2>1, <2>2, <2>4, <2>5, <2>6, WorkedKept
  <1> QED BY <1>10, <1>12, <1>13 DEF MarketInv, Escrows, market!Escrows

LEMMA DeliveredSafe ==
  ASSUME StarterKitAssumption, MarketInv, NEW s \in MarketSellers, market!Delivered(s) PROVE MarketInv'
  <1>. DEFINE m == [verb |-> "DELIVERED", round |-> job[s].round]
  <1>1. /\ job[s] # NoJob /\ job' = [job EXCEPT ![s] = NoJob]
        /\ market!Reply(s, m) \/ market!Discard(s)
        /\ UNCHANGED <<quoted, awarded, works, pc, round, bids, winner, terms, chain, deposits, releases>>
    BY DEF market!Delivered, market!OtherThanSeller, market!buyerVars, market!ReplyError, NoJob
  <1>2. MarketTyped
    BY DEF MarketInv
  <1>3. unread[s] # <<>> /\ job[s].round \in Rounds /\ WorkedIn(job[s].round)
    BY <1>1, <1>2 DEF MarketTyped, MarketInv, Worked
  <1>4. m \in Messages /\ m.round = job[s].round
    BY <1>3, MessageKinds DEF Deliveries
  <1>. HIDE DEF m
  <1> QED BY <1>1, <1>2, <1>3, <1>4, SellerCalm DEF MarketTyped

LEMMA SellerRestartsSafe ==
  ASSUME StarterKitAssumption, MarketInv, NEW s \in MarketSellers, market!SellerRestarts(s)
  PROVE  MarketInv'
  <1>1. /\ quoted' = [quoted EXCEPT ![s] = [r \in Rounds |-> 0]]
        /\ awarded' = [awarded EXCEPT ![s] = {}] /\ job' = [job EXCEPT ![s] = NoJob]
        /\ \/ unread' = [unread EXCEPT ![s] = <<>>]
           \/ job[s] = NoJob /\ unread' = unread
           \/ job[s] # NoJob /\ unread' = [unread EXCEPT ![s] = Tail(@)]
        /\ UNCHANGED <<threads, works, pc, round, bids, winner, terms, chain, deposits, releases>>
    BY DEF market!SellerRestarts, market!buyerVars, market!history, NoJob, Rounds
  <1>2. MarketTyped /\ s \in Agents /\ Nobody \in Agents /\ \A t \in MarketSellers : t \in Agents
    BY StarterFacts DEF MarketInv
  <1>3. 0 \in 0 .. Budget
    BY StarterFacts
  <1>4. /\ quoted' \in [MarketSellers -> [Rounds -> 0 .. Budget]]
        /\ awarded' \in [MarketSellers -> SUBSET market!References]
        /\ job' \in [MarketSellers -> [ref : market!References, round : Rounds] \cup {NoJob}]
        /\ job'[s] = NoJob /\ \A t \in MarketSellers \ {s} : job'[t] = job[t]
    BY <1>1, <1>2, <1>3 DEF MarketTyped
  <1>5. \A a \in Agents : Sent({}, 0)[a] = {}
    BY DEF Sent
  <1>6. pc' = "release" => WorkedIn(round')
    BY <1>1 DEF MarketInv, Worked
  <1>7. CASE unread' = [unread EXCEPT ![s] = <<>>] \/ unread' = unread
    <2>1. /\ unread' \in [Agents -> Seq(Mail)] /\ Moves(Read({}), Sent({}, 0))
          /\ \A a \in Agents : unread'[a] = unread[a] \/ (a = s /\ unread'[a] = <<>>)
      BY <1>2, <1>7, LostMoves
    <2>2. MarketTyped'
      BY <1>1, <1>2, <1>4, <2>1, SellerAlone DEF MarketTyped
    <2>3. \A t \in MarketSellers : job'[t] = job[t] \/ (job'[t] = NoJob /\ unread'[t] = <<>>)
      BY <1>1, <1>2, <1>4, <1>7, <2>1 DEF MarketTyped
    <2> QED BY <1>1, <1>2, <1>5, <1>6, <2>1, <2>2, <2>3, ReadTyped, CalmStep
  <1>8. CASE job[s] # NoJob /\ unread' = [unread EXCEPT ![s] = Tail(@)]
    <2>1. unread[s] # <<>>
      BY <1>2, <1>8 DEF MarketTyped
    <2>2. /\ unread' \in [Agents -> Seq(Mail)] /\ Moves(Read({s}), Sent({}, 0))
          /\ \A a \in Agents \ {s} : unread'[a] = unread[a]
      BY <1>2, <1>8, <2>1, DiscardMoves
    <2>3. MarketTyped'
      BY <1>1, <1>2, <1>4, <2>2, SellerAlone DEF MarketTyped
    <2>4. Read({s})[s] = 1
      BY <1>2 DEF Read
    <2> QED BY <1>1, <1>2, <1>4, <1>5, <1>6, <2>2, <2>3, <2>4, ReadTyped, CalmStep
  <1> QED BY <1>1, <1>7, <1>8

LEMMA MarketStep == ASSUME StarterKitAssumption, MarketInv, market!Next PROVE MarketInv'
  BY WantSafe, CollectBidSafe, AwardWinnerSafe, NextRoundSafe, ReceiveTermsSafe, DepositSafe,
     AwaitDeliverySafe, ReleaseFundsSafe, BuyerRestartsSafe, BidSafe, QuoteSafe, RefuseDepositSafe,
     WorkSafe, DeliveredSafe, SellerRestartsSafe
  DEF market!Next, market!Buyer, market!SellerStep

LEMMA MarketInitial == ASSUME StarterKitAssumption, Init PROVE MarketInv
  <1>1. /\ pc = "start" /\ round = 0 /\ bids = market!NoBids
        /\ quoted = [s \in MarketSellers |-> [r \in Rounds |-> 0]]
        /\ awarded = [s \in MarketSellers |-> {}] /\ job = [s \in MarketSellers |-> NoJob]
        /\ unread = [a \in Agents |-> <<>>] /\ threads = <<<<>>>>
        /\ chain = [e \in Escrows |-> 0] /\ deposits = chain /\ works = chain /\ releases = chain
    BY DEF Init, market!Init, Rounds, NoJob, Agents, Escrows
  <1>2. /\ Agents = MarketSellers \cup {Nobody} /\ MaxRound \in Nat /\ Budget \in Nat
    BY StarterFacts
  <1>3. \A a \in Agents : DOMAIN unread[a] = {}
    BY <1>1
  <1>4. MarketTyped
    <2>1. threads \in Seq(Seq(Messages))
      <3>1. <<>> \in Seq(Messages)
        BY EmptySeq
      <3> QED BY <1>1, <3>1
    <2>2. unread \in [Agents -> Seq(Mail)]
      BY <1>1, EmptySeq
    <2>3. ~ Settling /\ ~ Paying /\ DOMAIN bids = {}
      BY <1>1 DEF Settling, Paying, market!NoBids
    <2>4. /\ quoted \in [MarketSellers -> [Rounds -> 0 .. Budget]]
          /\ awarded \in [MarketSellers -> SUBSET market!References]
          /\ round \in 0 .. MaxRound
      BY <1>1, <1>2
    <2> QED BY <1>1, <2>1, <2>2, <2>3, <2>4 DEF MarketTyped
  <1>5. ASSUME NEW e \in Escrows PROVE Covered(e)
    <2>1. ToDo(e) = {}
      BY <1>2, <1>3 DEF ToDo, IsToDo
    <2>2. IsFiniteSet(ToDo(e)) /\ Cardinality(ToDo(e)) = 0
      BY <2>1, FS_EmptySet
    <2> QED BY <1>1, <2>2 DEF Covered
  <1>6. Worked
    BY <1>1, <1>2, <1>3 DEF Worked, Has
  <1> QED BY <1>4, <1>5, <1>6 DEF MarketInv

LEMMA MarketPreserved == ASSUME StarterKitAssumption, MarketInv, [Next]_vars PROVE MarketInv'
  <1>1. CASE Market
    BY <1>1, MarketStep DEF Market
  <1>2. CASE UNCHANGED marketVars
    <2>1. /\ MarketTyped' = MarketTyped /\ Worked' = Worked
      BY <1>2 DEF marketVars, MarketTyped, Settling, Paying, Worked, WorkedIn, Has
    <2>2. \A e \in Escrows : Covered(e)' = Covered(e)
      BY <1>2 DEF marketVars, Covered, ToDo, IsToDo
    <2> QED BY <2>1, <2>2 DEF MarketInv, Escrows, market!Escrows
  <1> QED BY <1>1, <1>2 DEF Next, Quickstart, Broker, Bridge, vars

LEMMA MarketSafe == Spec => []MarketInv
  <1>1. Init => MarketInv
    BY MarketInitial, StarterKitAssumption
  <1>2. MarketInv /\ [Next]_vars => MarketInv'
    BY MarketPreserved, StarterKitAssumption
  <1> QED BY <1>1, <1>2, PTL DEF Spec

\* A seller of the starter's market works once for each deposit it was told of,
\* and each deposit was released to it or is still locked, whatever the buyer's
\* restarts replay, for any sellers, wallets, rounds and prices.
THEOREM SellersWorkBacked == Spec => []WorkIsBacked
  <1>1. ASSUME MarketInv PROVE WorkIsBacked
    <2>1. \A e \in Escrows : works[e] <= releases[e] + (IF chain[e] > 0 THEN 1 ELSE 0)
      BY <1>1, ToDoCounted
    <2> QED BY <2>1 DEF WorkIsBacked, market!WorkIsBacked, Escrows
  <1> QED BY <1>1, MarketSafe, PTL

-----------------------------------------------------------------------------
(***************************************************************************)
(* The first life of the market's buyer.                                   *)
(***************************************************************************)
\* No price is asked that was not asked before.
NoNewAsk ==
  \A s \in MarketSellers, r \in Rounds, p \in Prices : Asked(s, r, p)' => Asked(s, r, p)

\* A seller's mailbox shrinks from the front: a mention keeps its distance to
\* another one.
LEMMA WantBefore ==
  ASSUME StarterKitAssumption, NEW k \in [Agents -> {0, 1}], NEW new, Moves(k, new),
         NEW s \in MarketSellers, \A m \in new[s] : m.verb # "WANT",
         NEW r \in Rounds, NEW n \in Nat, IsWant(s, r, n)'
  PROVE  n + k[s] \in Nat /\ IsWant(s, r, n + k[s])
  <1>1. s \in Agents /\ k[s] \in {0, 1}
    BY StarterFacts
  <1> QED BY <1>1 DEF Moves, IsWant

LEMMA QuietPrompted ==
  ASSUME StarterKitAssumption, Prompted, NEW k \in [Agents -> {0, 1}], NEW new, Moves(k, new),
         \A s \in MarketSellers : \A m \in new[s] : m.verb # "WANT", NoNewAsk, round' = round
  PROVE  Prompted'
  <1>1. OnePrice'
    BY DEF Prompted, OnePrice, NoNewAsk
  <1>2. NotAskedYet'
    BY DEF Prompted, NotAskedYet, NoNewAsk
  <1>3. WantedOnce'
    <2>1. ASSUME NEW s \in MarketSellers, NEW r \in Rounds, NEW n \in Nat, IsWant(s, r, n)'
          PROVE  /\ r <= round /\ \A i \in Nat : IsWant(s, r, i)' => i = n
                 /\ \A p \in Prices : ~ Asked(s, r, p)'
      <3>1. n + k[s] \in Nat /\ IsWant(s, r, n + k[s]) /\ k[s] \in {0, 1}
        BY <2>1, WantBefore, StarterFacts
      <3>2. r <= round /\ \A p \in Prices : ~ Asked(s, r, p)
        BY <3>1 DEF Prompted, WantedOnce
      <3>3. \A i \in Nat : IsWant(s, r, i)' => i = n
        <4>1. ASSUME NEW i \in Nat, IsWant(s, r, i)' PROVE i = n
          <5>1. i + k[s] \in Nat /\ IsWant(s, r, i + k[s])
            BY <2>1, <4>1, WantBefore
          <5>2. i + k[s] = n + k[s]
            BY <3>1, <5>1 DEF Prompted, WantedOnce
          <5> QED BY <3>1, <5>2
        <4> QED BY <4>1
      <3> QED BY <3>2, <3>3 DEF NoNewAsk
    <2> QED BY <2>1 DEF WantedOnce
  <1> QED BY <1>1, <1>2, <1>3 DEF Prompted

\* Old awards and terms are the winner's still, and new ones are.
LEMMA AwardsKept ==
  ASSUME StarterKitAssumption, OneAward, NEW k, NEW new, Moves(k, new),
         \A s \in MarketSellers, r \in Rounds : TheWinner(s, r) => TheWinner(s, r)',
         \A s \in MarketSellers : \A m \in new[s] : m \in Awards => TheWinner(s, m.round)',
         \A m \in new[Nobody] : m \in Terms => TheWinner(m.by, m.round)'
  PROVE  OneAward'
  <1>1. \A s \in MarketSellers : s \in Agents /\ Nobody \in Agents
    BY StarterFacts
  <1>2. ASSUME NEW s \in MarketSellers, NEW m \in Awards, Has(s, m)' PROVE TheWinner(s, m.round)'
    <2>1. Has(s, m) \/ m \in new[s]
      BY <1>1, <1>2, OldOrSent
    <2>2. m.round \in Rounds
      BY DEF Awards
    <2> QED BY <1>2, <2>1, <2>2 DEF OneAward
  <1>3. ASSUME NEW m \in Terms, Has(Nobody, m)' PROVE TheWinner(m.by, m.round)'
    <2>1. Has(Nobody, m) \/ m \in new[Nobody]
      BY <1>3, OldOrSent, StarterFacts
    <2>2. m.round \in Rounds /\ m.by \in MarketSellers
      BY DEF Terms
    <2> QED BY <1>3, <2>1, <2>2 DEF OneAward
  <1>4. Awards' = Awards /\ Terms' = Terms
    BY DEF Awards, Terms, Rounds, market!Rounds, Prices, market!Prices, market!References, market!boundReference
  <1> QED BY <1>2, <1>3, <1>4 DEF OneAward

\* The deposits and releases that there are belong to the round still.
LEMMA DealKept ==
  ASSUME StarterKitAssumption, MarketInv, OneDeposit, OneRelease,
         UNCHANGED <<deposits, releases, round>>, \A e \in Escrows : works[e] > 0 => works'[e] > 0,
         \/ UNCHANGED <<pc, terms>>
         \/ pc' = "start"
         \/ pc = "delivery" /\ pc' = "release" /\ UNCHANGED terms
         \/ pc \in {"bids", "terms"}
  PROVE  OneDeposit' /\ OneRelease'
  <1>1. TermsEscrow' = TermsEscrow \/ pc' = "start" \/ pc \in {"bids", "terms"}
    BY DEF TermsEscrow, market!EscrowFor, market!arbitratedEscrowPda, market!escrowPda
  <1>2. Escrows' = Escrows
    BY DEF Escrows, market!Escrows, market!References, market!Rounds, market!Prices
  <1>3. OneDeposit'
    BY <1>1, <1>2 DEF OneDeposit
  <1>4. OneRelease'
    BY <1>1, <1>2 DEF OneRelease
  <1> QED BY <1>3, <1>4

\* What a seller does changes nothing of the deal.
LEMMA SellerSettled ==
  ASSUME StarterKitAssumption, MarketInv, Settled, NEW k, NEW new, Moves(k, new),
         UNCHANGED <<pc, round, bids, winner, terms, deposits, releases>>,
         \A e \in Escrows : works[e] > 0 => works'[e] > 0,
         \A s \in MarketSellers : new[s] = {},
         \A m \in new[Nobody] : m \in Terms => TheWinner(m.by, m.round)
  PROVE  Settled'
  <1>1. \A s, r : TheWinner(s, r)' = TheWinner(s, r)
    BY DEF TheWinner, Settling
  <1>2. OneAward'
    BY <1>1, AwardsKept DEF Settled
  <1>3. Settles'
    BY DEF Settled, Settles, Paying
  <1>4. OneDeposit' /\ OneRelease'
    BY DealKept DEF Settled
  <1> QED BY <1>2, <1>3, <1>4 DEF Settled

LEMMA SellerStaysQuiet ==
  ASSUME StarterKitAssumption, MarketInv, FirstLife, NEW k \in [Agents -> {0, 1}], NEW new, Moves(k, new),
         UNCHANGED <<pc, round, bids, winner, terms, deposits, releases>>,
         \A e \in Escrows : works[e] > 0 => works'[e] > 0,
         \A s \in MarketSellers : new[s] = {},
         \A m \in new[Nobody] : m.verb = "DELIVERED" /\ m \in Messages,
         \A s \in MarketSellers, r \in Rounds : quoted'[s][r] = quoted[s][r] \/ quoted'[s][r] = 0
  PROVE  FirstLife'
  <1>1. \A m \in new[Nobody] : m \notin Terms /\ m \notin Bids
    BY MessageKinds
  <1>2. NoNewAsk
    <2>1. ASSUME NEW s \in MarketSellers, NEW r \in Rounds, NEW p \in Prices, Asked(s, r, p)'
          PROVE  Asked(s, r, p)
      <3>1. CASE quoted'[s][r] = p
        <4>1. p # 0
          BY StarterFacts
        <4> QED BY <3>1, <4>1 DEF Asked
      <3>2. CASE round = r /\ s \in DOMAIN bids /\ bids[s] = p
        BY <3>2 DEF Asked
      <3>3. ASSUME NEW m \in Bids \cup Terms, Has(Nobody, m)', m.by = s, m.round = r, m.price = p
            PROVE  Asked(s, r, p)
        <4>1. Nobody \in Agents
          BY StarterFacts
        <4>2. Has(Nobody, m)
          BY <1>1, <3>3, <4>1, OldOrSent
        <4> QED BY <3>3, <4>2 DEF Asked
      <3>4. Bids' = Bids /\ Terms' = Terms
        BY DEF Bids, Terms, Rounds, market!Rounds, Prices, market!Prices, market!References, market!boundReference
      <3> QED BY <2>1, <3>1, <3>2, <3>3, <3>4 DEF Asked
    <2> QED BY <2>1 DEF NoNewAsk
  <1>3. Prompted'
    BY <1>2, QuietPrompted DEF FirstLife
  <1>4. Settled'
    BY <1>1, SellerSettled DEF FirstLife
  <1> QED BY <1>3, <1>4 DEF FirstLife

\* A price that is asked after a step was asked before, or the step asked it.
AskedBy(new, s, r, p) == \E m \in new[Nobody] : m \in Bids \cup Terms /\ m.by = s /\ m.round = r /\ m.price = p

LEMMA AskedAfter ==
  ASSUME StarterKitAssumption, NEW k, NEW new, Moves(k, new),
         NEW s \in MarketSellers, NEW r \in Rounds, NEW p \in Prices, Asked(s, r, p)',
         quoted'[s][r] = p => Asked(s, r, p) \/ AskedBy(new, s, r, p),
         round' = r /\ s \in DOMAIN bids' /\ bids'[s] = p => Asked(s, r, p)
  PROVE  Asked(s, r, p) \/ AskedBy(new, s, r, p)
  <1>1. Bids' = Bids /\ Terms' = Terms
    BY DEF Bids, Terms, Rounds, market!Rounds, Prices, market!Prices, market!References, market!boundReference
  <1>2. Nobody \in Agents
    BY StarterFacts
  <1>3. ASSUME NEW m \in Bids \cup Terms, Has(Nobody, m)', m.by = s, m.round = r, m.price = p
        PROVE  Asked(s, r, p) \/ AskedBy(new, s, r, p)
    <2>1. Has(Nobody, m) \/ m \in new[Nobody]
      BY <1>2, <1>3, OldOrSent
    <2> QED BY <1>3, <2>1 DEF Asked, AskedBy
  <1> QED BY <1>1, <1>3 DEF Asked

\* A step of the buyer that wants nothing: what it takes for a bid was one.
LEMMA BuyerPrompted ==
  ASSUME StarterKitAssumption, Prompted, NEW k \in [Agents -> {0, 1}], NEW new, Moves(k, new),
         \A s \in MarketSellers : \A m \in new[s] : m.verb # "WANT", new[Nobody] = {},
         UNCHANGED <<round, quoted>>,
         \A s \in DOMAIN bids' : bids'[s] \in Prices => Asked(s, round, bids'[s])
  PROVE  Prompted'
  <1>1. NoNewAsk
    <2>1. ASSUME NEW s \in MarketSellers, NEW r \in Rounds, NEW p \in Prices, Asked(s, r, p)'
          PROVE  Asked(s, r, p)
      <3>1. quoted'[s][r] = p => Asked(s, r, p)
        BY DEF Asked
      <3>2. ~ AskedBy(new, s, r, p)
        BY DEF AskedBy
      <3> QED BY <2>1, <3>1, <3>2, AskedAfter
    <2> QED BY <2>1 DEF NoNewAsk
  <1> QED BY <1>1, QuietPrompted

\* The bids of the round were asked.
LEMMA BidsAsked ==
  ASSUME MarketTyped, NEW s \in DOMAIN bids
  PROVE  s \in MarketSellers /\ bids[s] \in Prices /\ Asked(s, round, bids[s])
  BY DEF MarketTyped, Asked

LEMMA NoNewAward ==
  ASSUME StarterKitAssumption, OneAward, NEW k, NEW new, Moves(k, new), round' = round,
         \/ pc' = "start"
         \/ UNCHANGED <<pc, winner>>
         \/ Settling /\ Settling' /\ UNCHANGED winner,
         \A a \in Agents : \A m \in new[a] : m \notin Awards \cup Terms
  PROVE  OneAward'
  <1>1. Nobody \in Agents /\ \A s \in MarketSellers : s \in Agents
    BY StarterFacts
  <1>2. \A s \in MarketSellers, r \in Rounds : TheWinner(s, r) => TheWinner(s, r)'
    BY DEF TheWinner, Settling
  <1> QED BY <1>1, <1>2, AwardsKept

LEMMA WantKept == ASSUME StarterKitAssumption, MarketInv, FirstLife, market!Want PROVE FirstLife'
  <1>. DEFINE m == [verb |-> "WANT", round |-> round']
  <1>1. /\ pc = "start" /\ pc' = "bids" /\ round < MaxRound /\ round' = round + 1
        /\ market!Send(m, MarketSellers)
        /\ UNCHANGED <<bids, winner, terms, quoted, awarded, job, chain, deposits, releases, works>>
    BY DEF market!Want, market!NothingPaid, market!OtherThanBuyer, market!sellerVars
  <1>2. /\ MarketTyped /\ Nobody \in Agents /\ Nobody \notin MarketSellers
        /\ \A s \in MarketSellers : s \in Agents
    BY StarterFacts DEF MarketInv
  <1>3. round' \in Rounds /\ round \in Nat /\ DOMAIN bids' = {}
    BY <1>1, <1>2, StarterFacts DEF MarketTyped
  <1>4. m \in Wants /\ m \in Messages /\ m \notin Awards \cup Terms /\ m.round = round'
    <2>1. m \in Wants /\ m.verb = "WANT"
      BY <1>3 DEF Wants
    <2> QED BY <2>1, MessageKinds
  <1>. HIDE DEF m
  <1>5. Moves(Read({}), Sent(MarketSellers, m))
    BY <1>1, <1>2, <1>4, SendMoves
  <1>6. Sent(MarketSellers, m)[Nobody] = {} /\ \A s \in MarketSellers : Sent(MarketSellers, m)[s] = {m}
    BY <1>2 DEF Sent
  <1>7. NoNewAsk
    <2>1. ASSUME NEW s \in MarketSellers, NEW r \in Rounds, NEW p \in Prices, Asked(s, r, p)'
          PROVE  Asked(s, r, p)
      <3>1. quoted'[s][r] = p => Asked(s, r, p)
        BY <1>1 DEF Asked
      <3>2. ~ AskedBy(Sent(MarketSellers, m), s, r, p)
        BY <1>6 DEF AskedBy
      <3> QED BY <1>3, <1>5, <2>1, <3>1, <3>2, AskedAfter
    <2> QED BY <2>1 DEF NoNewAsk
  <1>8. ASSUME NEW s \in MarketSellers, NEW r \in Rounds, NEW n \in Nat, IsWant(s, r, n)'
        PROVE  \/ IsWant(s, r, n) /\ r <= round
               \/ n = Len(unread[s]) + 1 /\ r = round'
    <2>1. Read({})[s] = 0 /\ n + 0 = n
      BY <1>2 DEF Read
    <2>2. n \in DOMAIN unread'[s] /\ unread'[s][n].m.verb = "WANT" /\ unread'[s][n].m.round = r
      BY <1>8 DEF IsWant
    <2>3. IF n \in DOMAIN unread[s] THEN unread'[s][n] = unread[s][n]
          ELSE n = Len(unread[s]) + 1 /\ unread'[s][n].m \in Sent(MarketSellers, m)[s]
      BY <1>2, <1>5, <2>1, <2>2 DEF Moves
    <2>4. CASE n \in DOMAIN unread[s]
      <3>1. IsWant(s, r, n)
        BY <2>2, <2>3, <2>4 DEF IsWant
      <3> QED BY <3>1 DEF FirstLife, Prompted, WantedOnce
    <2>5. CASE n \notin DOMAIN unread[s]
      BY <1>4, <1>6, <2>2, <2>3, <2>5
    <2> QED BY <2>4, <2>5
  <1>9. WantedOnce'
    <2>1. ASSUME NEW s \in MarketSellers, NEW r \in Rounds, NEW n \in Nat, IsWant(s, r, n)'
          PROVE  /\ r <= round' /\ \A i \in Nat : IsWant(s, r, i)' => i = n
                 /\ \A p \in Prices : ~ Asked(s, r, p)'
      <3>1. \A i \in Nat : IsWant(s, r, i)' =>
              (IsWant(s, r, i) /\ r <= round) \/ (i = Len(unread[s]) + 1 /\ r = round')
        BY <1>8
      <3>2. r <= round'
        <4>1. (r <= round) \/ (r = round')
          BY <2>1, <3>1
        <4>2. r \in Nat /\ round \in Nat
          BY <1>3, StarterFacts
        <4> QED BY <1>1, <4>1, <4>2
      <3>3. \A i \in Nat : IsWant(s, r, i)' => i = n
        <4>1. CASE r <= round
          BY <1>1, <1>3, <2>1, <3>1, <4>1 DEF FirstLife, Prompted, WantedOnce
        <4>2. CASE r = round'
          BY <1>1, <1>3, <2>1, <3>1, <4>2
        <4> QED BY <2>1, <3>1, <4>1, <4>2
      <3>4. \A p \in Prices : ~ Asked(s, r, p)
        <4>1. CASE IsWant(s, r, n)
          BY <4>1 DEF FirstLife, Prompted, WantedOnce
        <4>2. CASE r = round'
          <5>1. r > round
            BY <1>1, <1>3, <4>2
          <5> QED BY <5>1 DEF FirstLife, Prompted, NotAskedYet
        <4> QED BY <2>1, <3>1, <4>1, <4>2
      <3> QED BY <1>7, <3>2, <3>3, <3>4 DEF NoNewAsk
    <2> QED BY <2>1 DEF WantedOnce
  <1>10. OnePrice' /\ NotAskedYet'
    <2>1. \A r \in Rounds : r > round' => r > round
      BY <1>1, <1>3, StarterFacts
    <2>2. OnePrice'
      BY <1>7 DEF FirstLife, Prompted, OnePrice, NoNewAsk
    <2>3. NotAskedYet'
      BY <1>7, <2>1 DEF FirstLife, Prompted, NotAskedYet, NoNewAsk
    <2> QED BY <2>2, <2>3
  <1>11. OneAward'
    <2>1. \A s \in MarketSellers, r \in Rounds : TheWinner(s, r) => TheWinner(s, r)'
      BY <1>1, <1>3, StarterFacts DEF TheWinner
    <2> QED BY <1>2, <1>4, <1>5, <1>6, <2>1, AwardsKept DEF FirstLife, Settled
  <1>12. \A e \in Escrows : e[2][1] \in Nat /\ (releases[e] > 0 => deposits[e] > 0)
    <2>1. ASSUME NEW e \in Escrows PROVE e[2][1] \in Nat /\ (releases[e] > 0 => deposits[e] > 0)
      <3>1. e[2][1] \in Rounds
        BY StarterFacts DEF market!References, Rounds
      <3> QED BY <3>1, ToDoCounted, StarterFacts
    <2> QED BY <2>1
  <1>13. Escrows' = Escrows
    BY DEF Escrows, market!Escrows, market!References, market!Rounds, market!Prices
  <1>14. ASSUME NEW e \in Escrows, deposits[e] > 0 PROVE e[2][1] < round'
    <2>1. e[2][1] <= round
      BY <1>14 DEF FirstLife, Settled, OneDeposit
    <2> QED BY <1>1, <1>3, <1>12, <2>1
  <1>15. OneDeposit' /\ OneRelease'
    <2>1. ASSUME NEW e \in Escrows PROVE deposits'[e] > 0 => e[2][1] <= round' /\ e[2][1] # round'
      BY <1>1, <1>3, <1>12, <1>14
    <2>2. OneDeposit'
      BY <1>13, <2>1 DEF OneDeposit
    <2>3. OneRelease'
      BY <1>1, <1>12, <1>13, <2>1 DEF FirstLife, Settled, OneRelease
    <2> QED BY <2>2, <2>3
  <1>16. Settles'
    BY <1>1 DEF Settles, Paying
  <1> QED BY <1>9, <1>10, <1>11, <1>15, <1>16 DEF FirstLife, Prompted, Settled

LEMMA CollectBidKept ==
  ASSUME StarterKitAssumption, MarketInv, FirstLife, market!CollectBid PROVE FirstLife'
  <1>. DEFINE m == market!Heard(Nobody)
  <1>1. /\ pc = "bids" /\ pc' = "bids" /\ unread[Nobody] # <<>>
        /\ unread' = [unread EXCEPT ![Nobody] = Tail(@)]
        /\ bids' = IF m.verb = "BID" /\ m.round = round THEN market!selectBids(m) ELSE bids
        /\ UNCHANGED <<threads, round, winner, terms, quoted, awarded, job, chain, deposits, releases, works>>
    BY DEF market!CollectBid, market!NothingPaid, market!OtherThanBuyer, market!sellerVars,
       market!Discard, market!Waiting
  <1>2. MarketTyped /\ Nobody \in Agents /\ \A s \in MarketSellers : s \in Agents
    BY StarterFacts DEF MarketInv
  <1>3. m.verb = "BID" => m \in Bids /\ Has(Nobody, m)
    BY <1>1, <1>2, HeadFacts, MessageKinds
  <1>. HIDE DEF m
  <1>4. Moves(Read({Nobody}), Sent({}, 0)) /\ \A a \in Agents : Sent({}, 0)[a] = {}
    BY <1>1, <1>2, DiscardMoves DEF Sent
  <1>5. ASSUME NEW s \in DOMAIN bids', bids'[s] \in Prices PROVE Asked(s, round, bids'[s])
    <2>1. CASE m.verb = "BID" /\ m.round = round /\ s = m.by
      <3>1. bids'[s] = m.price
        BY <1>1, <2>1 DEF market!selectBids
      <3> QED BY <1>3, <2>1, <3>1 DEF Asked
    <2>2. CASE ~ (m.verb = "BID" /\ m.round = round /\ s = m.by)
      <3>1. s \in DOMAIN bids /\ bids'[s] = bids[s]
        BY <1>1, <1>5, <2>2 DEF market!selectBids
      <3> QED BY <1>2, <3>1, BidsAsked
    <2> QED BY <2>1, <2>2
  <1>6. Prompted'
    BY <1>1, <1>2, <1>4, <1>5, ReadTyped, BuyerPrompted DEF FirstLife
  <1>7. OneAward'
    BY <1>1, <1>4, NoNewAward DEF FirstLife, Settled
  <1>8. OneDeposit' /\ OneRelease' /\ Settles'
    BY <1>1, DealKept DEF FirstLife, Settled, Settles, Paying
  <1> QED BY <1>6, <1>7, <1>8 DEF FirstLife, Settled

LEMMA AwardWinnerKept ==
  ASSUME StarterKitAssumption, MarketInv, FirstLife, market!AwardWinner PROVE FirstLife'
  <1>1. PICK s \in DOMAIN bids :
          winner' = s /\ market!Send([verb |-> "AWARD", round |-> round, to |-> s], {s})
    BY DEF market!AwardWinner
  <1>. DEFINE m == [verb |-> "AWARD", round |-> round, to |-> s]
  <1>2. /\ pc = "bids" /\ pc' = "terms" /\ UNCHANGED <<round, bids, terms, quoted, awarded, job>>
        /\ UNCHANGED <<chain, deposits, releases, works>>
    BY DEF market!AwardWinner, market!NothingPaid, market!OtherThanBuyer, market!sellerVars
  <1>3. MarketTyped /\ round \in Rounds /\ s \in MarketSellers /\ Nobody \in Agents /\ s # Nobody
        /\ \A a \in MarketSellers : a \in Agents
    BY <1>2, StarterFacts DEF MarketInv, MarketTyped
  <1>4. m \in Awards /\ m \in Messages /\ m.verb = "AWARD" /\ m.round = round
    BY <1>3, MessageKinds DEF Awards
  <1>5. market!Send(m, {s})
    BY <1>1
  <1>. HIDE DEF m
  <1>6. Moves(Read({}), Sent({s}, m))
    BY <1>3, <1>4, <1>5, SendMoves
  <1>7. Sent({s}, m)[Nobody] = {} /\ \A a \in MarketSellers : \A x \in Sent({s}, m)[a] : a = s /\ x = m
    BY <1>3 DEF Sent
  <1>8. Prompted'
    <2>1. \A a \in MarketSellers : \A x \in Sent({s}, m)[a] : x.verb # "WANT"
      BY <1>4, <1>7
    <2> QED BY <1>2, <1>3, <1>6, <1>7, <2>1, ReadTyped, BidsAsked, BuyerPrompted DEF FirstLife
  <1>9. OneAward'
    <2>1. \A a \in MarketSellers, r \in Rounds : TheWinner(a, r) => TheWinner(a, r)'
      BY <1>2 DEF TheWinner
    <2>2. TheWinner(s, round)'
      <3>1. round <= round
        BY <1>3, StarterFacts
      <3> QED BY <1>1, <1>2, <3>1 DEF TheWinner, Settling
    <2>3. \A a \in MarketSellers : \A x \in Sent({s}, m)[a] : x \in Awards => TheWinner(a, x.round)'
      BY <1>2, <1>4, <1>7, <2>2 DEF TheWinner
    <2> QED BY <1>3, <1>6, <1>7, <2>1, <2>3, AwardsKept DEF FirstLife, Settled
  <1>10. OneDeposit' /\ OneRelease' /\ Settles'
    BY <1>2, DealKept DEF FirstLife, Settled, Settles, Paying
  <1> QED BY <1>8, <1>9, <1>10 DEF FirstLife, Settled

\* The end of a round that paid nothing.
LEMMA EndKept ==
  ASSUME StarterKitAssumption, MarketInv, FirstLife, market!EndRound,
         NEW k \in [Agents -> {0, 1}], NEW new, Moves(k, new), \A a \in Agents : new[a] = {},
         UNCHANGED <<round, quoted, deposits, releases, works>>
  PROVE  FirstLife'
  <1>1. Nobody \in Agents /\ \A s \in MarketSellers : s \in Agents
    BY StarterFacts
  <1>2. pc' = "start" /\ ~ Paying' /\ DOMAIN bids' = {}
    BY RoundEnds
  <1>3. Prompted'
    BY <1>1, <1>2, BuyerPrompted DEF FirstLife
  <1>4. OneAward'
    BY <1>2, NoNewAward DEF FirstLife, Settled
  <1>5. OneDeposit' /\ OneRelease' /\ Settles'
    BY <1>2, DealKept DEF FirstLife, Settled, Settles
  <1> QED BY <1>3, <1>4, <1>5 DEF FirstLife, Settled

LEMMA NextRoundKept ==
  ASSUME StarterKitAssumption, MarketInv, FirstLife, market!NextRound PROVE FirstLife'
  <1>1. market!EndRound /\ UNCHANGED <<round, unread, quoted, deposits, releases, works>>
    BY DEF market!NextRound, market!NothingPaid, market!OtherThanBuyer, market!sellerVars
  <1>2. MarketTyped /\ Nobody \in Agents
    BY StarterFacts DEF MarketInv
  <1>3. Moves(Read({}), Sent({}, 0)) /\ \A a \in Agents : Sent({}, 0)[a] = {}
    BY <1>1, <1>2, LostMoves DEF Sent
  <1> QED BY <1>1, <1>3, ReadTyped, EndKept

\* The terms of the round are the winner's, at the price of its bid.
LEMMA ReceiveTermsKept ==
  ASSUME StarterKitAssumption, MarketInv, FirstLife, market!ReceiveTerms PROVE FirstLife'
  <1>. DEFINE m == market!Heard(Nobody)
  <1>1. /\ pc = "terms" /\ unread[Nobody] # <<>> /\ unread' = [unread EXCEPT ![Nobody] = Tail(@)]
        /\ \/ /\ m.verb = "ESCROW_REQUIRED" /\ m.round = round /\ pc' = "deposit"
              /\ terms' = [by |-> m.by, ref |-> m.ref, price |-> m.price] /\ UNCHANGED <<bids, winner>>
           \/ market!EndRound
           \/ UNCHANGED <<pc, bids, winner, terms>>
        /\ UNCHANGED <<threads, round, quoted, awarded, job, chain, deposits, releases, works>>
    BY DEF market!ReceiveTerms, market!NothingPaid, market!OtherThanBuyer, market!sellerVars,
       market!Discard, market!Waiting
  <1>2. MarketTyped /\ Nobody \in Agents /\ round \in Rounds /\ \A s \in MarketSellers : s \in Agents
    BY <1>1, StarterFacts DEF MarketInv, MarketTyped
  <1>3. m.verb = "ESCROW_REQUIRED" => m \in Terms /\ Has(Nobody, m)
    BY <1>1, <1>2, HeadFacts, MessageKinds
  <1>. HIDE DEF m
  <1>4. Moves(Read({Nobody}), Sent({}, 0)) /\ \A a \in Agents : Sent({}, 0)[a] = {}
    BY <1>1, <1>2, DiscardMoves DEF Sent
  <1>5. CASE market!EndRound
    BY <1>1, <1>4, <1>5, ReadTyped, EndKept
  <1>6. ASSUME UNCHANGED <<bids, winner>>,
               \/ UNCHANGED <<pc, terms>>
               \/ /\ m.verb = "ESCROW_REQUIRED" /\ m.round = round /\ pc' = "deposit"
                  /\ terms' = [by |-> m.by, ref |-> m.ref, price |-> m.price]
        PROVE  FirstLife'
    <2>1. Prompted'
      BY <1>1, <1>2, <1>4, <1>6, ReadTyped, BidsAsked, BuyerPrompted DEF FirstLife
    <2>2. Settling /\ Settling'
      BY <1>1, <1>6 DEF Settling
    <2>3. OneAward'
      BY <1>1, <1>4, <1>6, <2>2, NoNewAward DEF FirstLife, Settled
    <2>4. OneDeposit' /\ OneRelease'
      BY <1>1, <1>6, DealKept DEF FirstLife, Settled
    <2>5. Settles'
      <3>1. CASE UNCHANGED <<pc, terms>>
        BY <1>6, <3>1 DEF FirstLife, Settled, Settles, Paying
      <3>2. CASE m.verb = "ESCROW_REQUIRED" /\ m.round = round
                 /\ terms' = [by |-> m.by, ref |-> m.ref, price |-> m.price]
        <4>1. m \in Terms /\ Has(Nobody, m) /\ m.by \in MarketSellers /\ m.price \in Prices
          BY <1>3, <3>2 DEF Terms
        <4>2. m.by = winner
          BY <1>1, <2>2, <3>2, <4>1 DEF FirstLife, Settled, OneAward, TheWinner
        <4>3. winner \in DOMAIN bids
          BY <1>2, <2>2 DEF MarketTyped
        <4>4. bids[winner] \in Prices /\ Asked(winner, round, bids[winner])
          BY <1>2, <4>3, BidsAsked
        <4>5. Asked(winner, round, m.price)
          BY <3>2, <4>1, <4>2 DEF Asked
        <4>6. m.price = bids[winner]
          BY <1>2, <4>1, <4>2, <4>4, <4>5 DEF FirstLife, Prompted, OnePrice
        <4> QED BY <1>6, <3>2, <4>2, <4>6 DEF Settles
      <3> QED BY <1>6, <3>1, <3>2
    <2> QED BY <2>1, <2>3, <2>4, <2>5 DEF FirstLife, Settled
  <1> QED BY <1>1, <1>5, <1>6

LEMMA AwaitDeliveryKept ==
  ASSUME StarterKitAssumption, MarketInv, FirstLife, market!AwaitDelivery PROVE FirstLife'
  <1>1. /\ pc = "delivery" /\ unread[Nobody] # <<>> /\ unread' = [unread EXCEPT ![Nobody] = Tail(@)]
        /\ pc' \in {"release", "delivery"}
        /\ UNCHANGED <<threads, round, bids, winner, terms, quoted, awarded, job>>
        /\ UNCHANGED <<chain, deposits, releases, works>>
    BY DEF market!AwaitDelivery, market!NothingPaid, market!OtherThanBuyer, market!sellerVars,
       market!Discard, market!Waiting
  <1>2. MarketTyped /\ Nobody \in Agents /\ \A s \in MarketSellers : s \in Agents
    BY StarterFacts DEF MarketInv
  <1>3. Moves(Read({Nobody}), Sent({}, 0)) /\ \A a \in Agents : Sent({}, 0)[a] = {}
    BY <1>1, <1>2, DiscardMoves DEF Sent
  <1>4. Prompted'
    BY <1>1, <1>2, <1>3, ReadTyped, BidsAsked, BuyerPrompted DEF FirstLife
  <1>5. Settling /\ Settling' /\ Paying
    BY <1>1 DEF Settling, Paying
  <1>6. OneAward'
    BY <1>1, <1>3, <1>5, NoNewAward DEF FirstLife, Settled
  <1>7. OneDeposit' /\ OneRelease'
    BY <1>1, DealKept DEF FirstLife, Settled
  <1>8. Settles'
    BY <1>1, <1>5 DEF FirstLife, Settled, Settles
  <1> QED BY <1>4, <1>6, <1>7, <1>8 DEF FirstLife, Settled

\* What the buyer says of a payment asks and awards nothing.
LEMMA PaymentKept ==
  ASSUME StarterKitAssumption, MarketInv, FirstLife, Paying,
         NEW v \in {"DEPOSITED", "RELEASED", "ARBITER_RELEASED"},
         \/ market!Announce(v, winner) /\ pc' = "delivery" /\ UNCHANGED <<bids, winner, terms>>
         \/ (market!Announce(v, winner) \/ UNCHANGED <<unread, threads>>) /\ market!EndRound,
         UNCHANGED <<round, quoted>>
  PROVE  Prompted' /\ OneAward' /\ Settles'
  <1>1. MarketTyped /\ Nobody \in Agents /\ \A s \in MarketSellers : s \in Agents /\ s # Nobody
    BY StarterFacts DEF MarketInv
  <1>2. winner \in MarketSellers /\ Settling
    BY <1>1, TermsFacts DEF Settling, Paying
  <1>3. PICK new : /\ Moves(Read({}), new) /\ new[Nobody] = {}
                   /\ \A a \in Agents : \A m \in new[a] : m \in Payments
    <2>1. CASE market!Announce(v, winner)
      <3>. DEFINE m == [verb |-> v, round |-> round, escrow |-> TermsEscrow]
      <3>1. Moves(Read({}), Sent({winner}, m))
        BY <1>1, <2>1, AnnounceMoves
      <3>2. m \in Payments
        BY <1>1, TermsFacts DEF Payments
      <3>. HIDE DEF m
      <3>3. Sent({winner}, m)[Nobody] = {} /\ \A a \in Agents : \A x \in Sent({winner}, m)[a] : x = m
        BY <1>1, <1>2 DEF Sent
      <3> QED BY <3>1, <3>2, <3>3
    <2>2. CASE UNCHANGED <<unread, threads>>
      <3>1. Moves(Read({}), Sent({}, 0)) /\ \A a \in Agents : Sent({}, 0)[a] = {}
        BY <1>1, <2>2, LostMoves DEF Sent
      <3> QED BY <1>1, <3>1
    <2> QED BY <2>1, <2>2
  <1>4. \A a \in Agents : \A m \in new[a] : m.verb # "WANT" /\ m \notin Awards \cup Terms
    <2>1. \A m \in Payments : m.verb # "WANT" /\ m \notin Awards \cup Terms
      BY DEF Payments, Awards, Terms
    <2> QED BY <1>3, <2>1
  <1>5. CASE market!EndRound
    <2>1. pc' = "start" /\ ~ Paying' /\ DOMAIN bids' = {}
      BY <1>5, RoundEnds
    <2>2. Prompted'
      BY <1>1, <1>3, <1>4, <2>1, ReadTyped, BuyerPrompted DEF FirstLife
    <2>3. OneAward'
      BY <1>3, <1>4, <2>1, NoNewAward DEF FirstLife, Settled
    <2> QED BY <2>1, <2>2, <2>3 DEF Settles
  <1>6. CASE pc' = "delivery" /\ UNCHANGED <<bids, winner, terms>>
    <2>1. Settling'
      BY <1>6 DEF Settling
    <2>2. Prompted'
      BY <1>1, <1>3, <1>4, <1>6, ReadTyped, BidsAsked, BuyerPrompted DEF FirstLife
    <2>3. OneAward'
      BY <1>2, <1>3, <1>4, <1>6, <2>1, NoNewAward DEF FirstLife, Settled
    <2>4. Settles'
      BY <1>6 DEF FirstLife, Settled, Settles
    <2> QED BY <2>2, <2>3, <2>4
  <1> QED BY <1>5, <1>6

LEMMA DepositKept ==
  ASSUME StarterKitAssumption, MarketInv, FirstLife, market!Deposit PROVE FirstLife'
  <1>1. PICK e0 : e0 = TermsEscrow
    OBVIOUS
  <1>2. /\ pc = "deposit" /\ (market!deposit \/ market!openArbitrated)
        /\ \/ market!Announce("DEPOSITED", winner) /\ pc' = "delivery" /\ UNCHANGED <<bids, winner, terms>>
           \/ UNCHANGED <<unread, threads>> /\ market!EndRound
        /\ UNCHANGED <<round, quoted, awarded, job, releases, works>>
    BY DEF market!Deposit, market!OtherThanBuyer, market!sellerVars
  <1>3. MarketTyped /\ Paying
    BY <1>2 DEF MarketInv, Paying
  <1>4. /\ e0 \in Escrows /\ e0[2][1] = round /\ round \in Nat
        /\ deposits' = [deposits EXCEPT ![e0] = deposits[e0] + 1]
    BY <1>1, <1>2, <1>3, TermsFacts, StarterFacts DEF market!Lock
  <1>5. Prompted' /\ OneAward' /\ Settles'
    BY <1>2, <1>3, PaymentKept
  <1>6. Escrows' = Escrows
    BY DEF Escrows, market!Escrows, market!References, market!Rounds, market!Prices
  <1>7. OneDeposit'
    <2>1. ASSUME NEW e \in Escrows, deposits'[e] > 0
          PROVE  /\ e[2][1] <= round'
                 /\ e[2][1] = round' => pc' = "start" \/ (pc' = "delivery" /\ e = TermsEscrow')
      <3>1. CASE e = e0
        <4>1. pc' = "start" \/ (pc' = "delivery" /\ TermsEscrow' = e0)
          <5>1. CASE market!EndRound
            BY <5>1, RoundEnds
          <5>2. CASE pc' = "delivery" /\ UNCHANGED terms
            BY <1>1, <5>2 DEF TermsEscrow, market!EscrowFor, market!arbitratedEscrowPda, market!escrowPda
          <5> QED BY <1>2, <5>1, <5>2
        <4> QED BY <1>2, <1>4, <3>1, <4>1
      <3>2. CASE e # e0
        <4>1. deposits[e] > 0
          BY <1>3, <1>4, <2>1, <3>2 DEF MarketTyped
        <4> QED BY <1>2, <4>1 DEF FirstLife, Settled, OneDeposit
      <3> QED BY <3>1, <3>2
    <2> QED BY <1>6, <2>1 DEF OneDeposit
  <1>8. OneRelease'
    BY <1>2, <1>6 DEF FirstLife, Settled, OneRelease
  <1> QED BY <1>5, <1>7, <1>8 DEF FirstLife, Settled

\* What is released is the escrow of the terms, which was worked for, for the
\* first time.
LEMMA ReleaseFundsKept ==
  ASSUME StarterKitAssumption, MarketInv, FirstLife, market!ReleaseFunds PROVE FirstLife'
  <1>1. PICK e0 : e0 = TermsEscrow
    OBVIOUS
  <1>2. PICK v \in {"RELEASED", "ARBITER_RELEASED"} :
          market!Announce(v, winner) \/ UNCHANGED <<unread, threads>>
    BY DEF market!ReleaseFunds
  <1>3. /\ pc = "release" /\ (market!release \/ market!arbitrateRelease) /\ market!EndRound
        /\ pc' = "start" /\ UNCHANGED <<round, quoted, awarded, job, deposits, works>>
    BY DEF market!ReleaseFunds, market!OtherThanBuyer, market!sellerVars, market!EndRound
  <1>4. MarketTyped /\ Paying
    BY <1>3 DEF MarketInv, Paying
  <1>5. /\ e0 \in Escrows /\ e0[2][1] = round
        /\ releases' = [releases EXCEPT ![e0] = releases[e0] + 1]
    BY <1>1, <1>3, <1>4, TermsFacts DEF market!Unlock
  <1>6. Prompted' /\ OneAward' /\ Settles'
    <2>1. v \in {"DEPOSITED", "RELEASED", "ARBITER_RELEASED"}
      OBVIOUS
    <2> QED BY <1>2, <1>3, <1>4, <2>1, PaymentKept
  <1>7. Escrows' = Escrows
    BY DEF Escrows, market!Escrows, market!References, market!Rounds, market!Prices
  <1>8. works[e0] > 0
    <2>1. PICK e \in Escrows : e[2][1] = round /\ works[e] > 0
      BY <1>3 DEF MarketInv, Worked, WorkedIn
    <2>2. deposits[e] > 0
      BY <2>1, ToDoCounted
    <2>3. e = e0
      BY <1>1, <1>3, <2>1, <2>2 DEF FirstLife, Settled, OneDeposit
    <2> QED BY <2>1, <2>3
  <1>9. releases[e0] = 0
    <2>1. ~ (releases[e0] > 0)
      BY <1>3, <1>5 DEF FirstLife, Settled, OneRelease
    <2> QED BY <1>5, <2>1, ToDoCounted
  <1>10. OneDeposit'
    BY <1>3, <1>7 DEF FirstLife, Settled, OneDeposit
  <1>11. OneRelease'
    <2>1. ASSUME NEW e \in Escrows, releases'[e] > 0 PROVE works'[e] > 0 /\ releases'[e] = 1
      <3>1. CASE e = e0
        BY <1>3, <1>4, <1>5, <1>8, <1>9, <3>1 DEF MarketTyped
      <3>2. CASE e # e0
        <4>1. releases'[e] = releases[e]
          BY <1>4, <1>5, <3>2 DEF MarketTyped
        <4> QED BY <1>3, <2>1, <4>1 DEF FirstLife, Settled, OneRelease
      <3> QED BY <3>1, <3>2
    <2> QED BY <1>3, <1>7, <2>1 DEF OneRelease
  <1> QED BY <1>6, <1>10, <1>11 DEF FirstLife, Settled

\* A step of seller s that reads its mailbox, or loses it, and says nothing
\* before the delivery.
LEMMA BidKept ==
  ASSUME StarterKitAssumption, MarketInv, FirstLife, NEW s \in MarketSellers, market!Bid(s)
  PROVE  FirstLife'
  <1>. DEFINE h == market!Heard(s)
  <1>1. /\ market!Hears(s, "WANT")
        /\ UNCHANGED <<awarded, job, works, pc, round, bids, winner, terms, chain, deposits, releases>>
    BY DEF market!Bid, market!OtherThanSeller, market!buyerVars
  <1>2. MarketTyped /\ Nobody \in Agents /\ Nobody # s /\ \A a \in MarketSellers : a \in Agents /\ a # Nobody
    BY StarterFacts DEF MarketInv
  <1>3. unread[s] # <<>> /\ h = unread[s][1].m /\ 1 \in DOMAIN unread[s] /\ h.verb = "WANT" /\ h \in Wants
    BY <1>1, <1>2, HearsFacts, MessageKinds
  <1>4. PICK r \in Rounds : r = h.round
    BY <1>3 DEF Wants
  <1>5. IsWant(s, r, 1)
    BY <1>3, <1>4 DEF IsWant
  <1>. HIDE DEF h
  <1>6. CASE market!Discard(s) /\ UNCHANGED quoted
    <2>1. Moves(Read({s}), Sent({}, 0)) /\ \A a \in Agents : Sent({}, 0)[a] = {}
      BY <1>2, <1>3, <1>6, DiscardMoves DEF Sent, market!Discard
    <2> QED BY <1>1, <1>2, <1>6, <2>1, ReadTyped, SellerStaysQuiet
  <1>7. ASSUME NEW p \in market!decideBid(s), quoted' = [quoted EXCEPT ![s][r] = p],
               market!Reply(s, [verb |-> "BID", round |-> r, by |-> s, price |-> p])
        PROVE  FirstLife'
    <2>. DEFINE m == [verb |-> "BID", round |-> r, by |-> s, price |-> p]
    <2>1. p \in Prices
      BY DEF market!decideBid, Prices
    <2>2. m \in Bids /\ m \in Messages /\ m \notin Terms /\ m.by = s /\ m.round = r /\ m.price = p
      <3>1. m \in Bids /\ m.verb = "BID"
        BY <2>1 DEF Bids
      <3> QED BY <3>1, MessageKinds
    <2>. HIDE DEF m
    <2>3. Moves(Read({s}), Sent({Nobody}, m))
      BY <1>2, <1>3, <1>7, <2>2, ReplyMoves DEF m
    <2>4. Sent({Nobody}, m)[Nobody] = {m} /\ \A a \in MarketSellers : Sent({Nobody}, m)[a] = {}
      BY <1>2 DEF Sent
    <2>5. ASSUME NEW a \in MarketSellers, NEW i \in Rounds, NEW q \in Prices, Asked(a, i, q)'
          PROVE  Asked(a, i, q) \/ (a = s /\ i = r /\ q = p)
      <3>1. AskedBy(Sent({Nobody}, m), a, i, q) => a = s /\ i = r /\ q = p
        BY <2>2, <2>4 DEF AskedBy
      <3>2. AskedBy(Sent({Nobody}, m), s, r, p)
        BY <2>2, <2>4 DEF AskedBy
      <3>3. quoted'[a][i] = q => Asked(a, i, q) \/ (a = s /\ i = r /\ q = p)
        BY <1>2, <1>7 DEF MarketTyped, Asked
      <3>4. round' = i /\ a \in DOMAIN bids' /\ bids'[a] = q => Asked(a, i, q)
        BY <1>1 DEF Asked
      <3> QED BY <2>3, <2>5, <3>1, <3>2, <3>3, <3>4, AskedAfter
    <2>6. r <= round /\ (\A i \in Nat : IsWant(s, r, i) => i = 1) /\ \A q \in Prices : ~ Asked(s, r, q)
      BY <1>5 DEF FirstLife, Prompted, WantedOnce
    <2>7. OnePrice'
      <3>1. ASSUME NEW a \in MarketSellers, NEW i \in Rounds, NEW q1 \in Prices, NEW q2 \in Prices,
                   Asked(a, i, q1)', Asked(a, i, q2)'
            PROVE  q1 = q2
        BY <2>5, <2>6, <3>1 DEF FirstLife, Prompted, OnePrice
      <3> QED BY <3>1 DEF OnePrice
    <2>8. NotAskedYet'
      <3>1. ASSUME NEW a \in MarketSellers, NEW i \in Rounds, i > round, NEW q \in Prices, Asked(a, i, q)'
            PROVE  FALSE
        <4>1. i # r
          BY <1>2, <2>6, <3>1, StarterFacts DEF MarketTyped
        <4> QED BY <2>5, <3>1, <4>1 DEF FirstLife, Prompted, NotAskedYet
      <3> QED BY <1>1, <3>1 DEF NotAskedYet
    <2>9. WantedOnce'
      <3>1. ASSUME NEW a \in MarketSellers, NEW i \in Rounds, NEW n \in Nat, IsWant(a, i, n)'
            PROVE  /\ i <= round /\ \A j \in Nat : IsWant(a, i, j)' => j = n
                   /\ \A q \in Prices : ~ Asked(a, i, q)'
        <4>1. Read({s})[a] \in {0, 1} /\ (a = s => Read({s})[a] = 1)
          BY <1>2 DEF Read
        <4>2. \A j \in Nat : IsWant(a, i, j)' => j + Read({s})[a] \in Nat /\ IsWant(a, i, j + Read({s})[a])
          <5>1. ASSUME NEW j \in Nat, IsWant(a, i, j)'
                PROVE  j + Read({s})[a] \in Nat /\ IsWant(a, i, j + Read({s})[a])
            BY <2>3, <2>4, <5>1, ReadTyped, WantBefore
          <5> QED BY <5>1
        <4>3. i <= round /\ \A q \in Prices : ~ Asked(a, i, q)
          BY <3>1, <4>2 DEF FirstLife, Prompted, WantedOnce
        <4>4. \A j \in Nat : IsWant(a, i, j)' => j = n
          <5>1. ASSUME NEW j \in Nat, IsWant(a, i, j)' PROVE j + Read({s})[a] = n + Read({s})[a]
            BY <3>1, <4>2, <5>1 DEF FirstLife, Prompted, WantedOnce
          <5> QED BY <4>1, <5>1
        <4>5. ~ (a = s /\ i = r)
          <5>1. SUFFICES ASSUME a = s, i = r PROVE FALSE
            OBVIOUS
          <5>2. n = 0
            BY <2>6, <3>1, <4>1, <4>2, <5>1
          <5>3. 0 \in DOMAIN unread'[s]
            BY <3>1, <5>1, <5>2 DEF IsWant
          <5>4. unread' \in [Agents -> Seq(Mail)]
            BY <1>2, <1>3, <1>7, <2>2, ReplyMoves DEF m
          <5> QED BY <1>2, <5>3, <5>4, LenProperties
        <4> QED BY <2>5, <4>3, <4>4, <4>5
      <3> QED BY <1>1, <3>1 DEF WantedOnce
    <2>10. Settled'
      BY <1>1, <1>2, <2>2, <2>3, <2>4, SellerSettled DEF FirstLife
    <2> QED BY <2>7, <2>8, <2>9, <2>10 DEF FirstLife, Prompted
  <1> QED BY <1>4, <1>6, <1>7 DEF market!Bid, h

\* The terms ask for what was bid, and the quote is gone.
LEMMA QuoteKept ==
  ASSUME StarterKitAssumption, MarketInv, FirstLife, NEW s \in MarketSellers, market!Quote(s)
  PROVE  FirstLife'
  <1>1. PICK r, price, ref : /\ r = market!Heard(s).round /\ price = quoted[s][r]
                             /\ ref = market!boundReference(s, r, price)
    OBVIOUS
  <1>2. /\ market!Hears(s, "AWARD") /\ UNCHANGED <<job, works, pc, round, bids, winner, terms>>
        /\ UNCHANGED <<chain, deposits, releases>>
        /\ IF price = 0 THEN market!Discard(s) /\ UNCHANGED <<quoted, awarded>>
           ELSE /\ quoted' = [quoted EXCEPT ![s][r] = 0]
                /\ market!Reply(s, [verb |-> "ESCROW_REQUIRED", round |-> r, by |-> s, ref |-> ref,
                                    price |-> price])
    BY <1>1 DEF market!Quote, market!OtherThanSeller, market!buyerVars
  <1>3. MarketTyped /\ Nobody \in Agents /\ Nobody # s /\ \A a \in MarketSellers : a \in Agents /\ a # Nobody
    BY StarterFacts DEF MarketInv
  <1>4. unread[s] # <<>> /\ market!Heard(s) \in Awards /\ Has(s, market!Heard(s))
    BY <1>2, <1>3, HearsFacts, MessageKinds
  <1>5. r \in Rounds /\ TheWinner(s, r) /\ price \in 0 .. Budget
    <2>1. r \in Rounds
      BY <1>1, <1>4 DEF Awards
    <2>2. TheWinner(s, r)
      BY <1>1, <1>4 DEF FirstLife, Settled, OneAward
    <2> QED BY <1>1, <1>3, <2>1, <2>2 DEF MarketTyped
  <1>6. CASE price = 0
    <2>1. Moves(Read({s}), Sent({}, 0)) /\ \A a \in Agents : Sent({}, 0)[a] = {}
      BY <1>2, <1>3, <1>4, <1>6, DiscardMoves DEF Sent, market!Discard
    <2> QED BY <1>2, <1>3, <1>6, <2>1, ReadTyped, SellerStaysQuiet
  <1>7. CASE price # 0
    <2>. DEFINE m == [verb |-> "ESCROW_REQUIRED", round |-> r, by |-> s, ref |-> ref, price |-> price]
    <2>1. price \in Prices
      BY <1>5, <1>7, StarterFacts
    <2>2. m \in Terms /\ m \in Messages /\ m.by = s /\ m.round = r /\ m.price = price
      <3>1. ref \in market!References
        BY <1>1, <1>5, <2>1, StarterFacts
      <3>2. m \in Terms
        BY <1>1, <1>5, <2>1, <3>1 DEF Terms
      <3> QED BY <3>2, MessageKinds
    <2>3. market!Reply(s, m)
      BY <1>2, <1>7
    <2>. HIDE DEF m
    <2>4. Moves(Read({s}), Sent({Nobody}, m))
      BY <1>3, <1>4, <2>2, <2>3, ReplyMoves
    <2>5. Sent({Nobody}, m)[Nobody] = {m} /\ \A a \in MarketSellers : Sent({Nobody}, m)[a] = {}
      BY <1>3 DEF Sent
    <2>6. NoNewAsk
      <3>1. ASSUME NEW a \in MarketSellers, NEW i \in Rounds, NEW q \in Prices, Asked(a, i, q)'
            PROVE  Asked(a, i, q)
        <4>1. q # 0
          BY StarterFacts
        <4>2. quoted'[a][i] = q => Asked(a, i, q)
          <5>1. quoted' = [quoted EXCEPT ![s][r] = 0] /\ quoted \in [MarketSellers -> [Rounds -> 0 .. Budget]]
            BY <1>2, <1>3, <1>7 DEF MarketTyped
          <5>2. quoted'[a][i] = IF a = s /\ i = r THEN 0 ELSE quoted[a][i]
            BY <1>5, <5>1
          <5> QED BY <4>1, <5>2 DEF Asked
        <4>3. round' = i /\ a \in DOMAIN bids' /\ bids'[a] = q => Asked(a, i, q)
          BY <1>2 DEF Asked
        <4>4. AskedBy(Sent({Nobody}, m), a, i, q) => Asked(a, i, q)
          BY <1>1, <2>2, <2>5 DEF AskedBy, Asked
        <4> QED BY <2>4, <3>1, <4>2, <4>3, <4>4, AskedAfter
      <3> QED BY <3>1 DEF NoNewAsk
    <2>7. Prompted'
      BY <1>2, <2>4, <2>5, <2>6, ReadTyped, QuietPrompted DEF FirstLife
    <2>8. Settled'
      BY <1>2, <1>3, <1>5, <2>2, <2>4, <2>5, SellerSettled DEF FirstLife
    <2> QED BY <2>7, <2>8 DEF FirstLife
  <1> QED BY <1>6, <1>7

LEMMA RefuseDepositKept ==
  ASSUME StarterKitAssumption, MarketInv, FirstLife, NEW s \in MarketSellers,
         market!RefuseDeposit(s) \/ market!IgnoreMention(s)
  PROVE  FirstLife'
  <1>1. /\ unread[s] # <<>> /\ unread' = [unread EXCEPT ![s] = Tail(@)]
        /\ UNCHANGED <<quoted, works, pc, round, bids, winner, terms, deposits, releases>>
    BY DEF market!RefuseDeposit, market!IgnoreMention, market!OtherThanSeller, market!buyerVars,
       market!sellerVars, market!ReplyError, market!Discard, market!Hears, market!Waiting
  <1>2. MarketTyped /\ Nobody \in Agents /\ \A a \in MarketSellers : a \in Agents
    BY StarterFacts DEF MarketInv
  <1>3. Moves(Read({s}), Sent({}, 0)) /\ \A a \in Agents : Sent({}, 0)[a] = {}
    BY <1>1, <1>2, DiscardMoves DEF Sent
  <1> QED BY <1>1, <1>2, <1>3, ReadTyped, SellerStaysQuiet

LEMMA WorkKept ==
  ASSUME StarterKitAssumption, MarketInv, FirstLife, NEW s \in MarketSellers, market!Work(s)
  PROVE  FirstLife'
  <1>1. PICK e0 : e0 = market!Heard(s).escrow
    OBVIOUS
  <1>2. /\ works' = [works EXCEPT ![e0] = works[e0] + 1] /\ market!Hears(s, "DEPOSITED")
        /\ UNCHANGED <<quoted, unread, threads, pc, round, bids, winner, terms, deposits, releases>>
    BY <1>1 DEF market!Work, market!OtherThanSeller, market!buyerVars
  <1>3. MarketTyped /\ Nobody \in Agents /\ \A a \in MarketSellers : a \in Agents
    BY StarterFacts DEF MarketInv
  <1>4. Moves(Read({}), Sent({}, 0)) /\ \A a \in Agents : Sent({}, 0)[a] = {}
    BY <1>2, <1>3, LostMoves DEF Sent
  <1>5. \A e \in Escrows : works[e] > 0 => works'[e] > 0
    BY <1>2, <1>3 DEF MarketTyped
  <1> QED BY <1>2, <1>3, <1>4, <1>5, ReadTyped, SellerStaysQuiet

LEMMA DeliveredKept ==
  ASSUME StarterKitAssumption, MarketInv, FirstLife, NEW s \in MarketSellers, market!Delivered(s)
  PROVE  FirstLife'
  <1>. DEFINE m == [verb |-> "DELIVERED", round |-> job[s].round]
  <1>1. /\ job[s] # NoJob
        /\ market!Reply(s, m) \/ unread' = [unread EXCEPT ![s] = Tail(@)]
        /\ UNCHANGED <<quoted, works, pc, round, bids, winner, terms, deposits, releases>>
    BY DEF market!Delivered, market!OtherThanSeller, market!buyerVars, market!ReplyError, market!Discard, NoJob
  <1>2. MarketTyped /\ s \in Agents /\ Nobody \in Agents
        /\ \A a \in MarketSellers : a \in Agents /\ a # Nobody
    BY StarterFacts DEF MarketInv
  <1>3. unread[s] # <<>> /\ m \in Messages /\ m.verb = "DELIVERED"
    <2>1. unread[s] # <<>> /\ job[s].round \in Rounds
      BY <1>1, <1>2 DEF MarketTyped
    <2> QED BY <2>1, MessageKinds DEF Deliveries
  <1>. HIDE DEF m
  <1>4. CASE market!Reply(s, m)
    <2>1. Moves(Read({s}), Sent({Nobody}, m))
      BY <1>2, <1>3, <1>4, ReplyMoves
    <2>2. Sent({Nobody}, m)[Nobody] = {m} /\ \A a \in MarketSellers : Sent({Nobody}, m)[a] = {}
      BY <1>2 DEF Sent
    <2> QED BY <1>1, <1>3, <2>1, <2>2, ReadTyped, SellerStaysQuiet
  <1>5. CASE unread' = [unread EXCEPT ![s] = Tail(@)]
    <2>1. Moves(Read({s}), Sent({}, 0)) /\ \A a \in Agents : Sent({}, 0)[a] = {}
      BY <1>2, <1>3, <1>5, DiscardMoves DEF Sent
    <2> QED BY <1>1, <1>2, <2>1, ReadTyped, SellerStaysQuiet
  <1> QED BY <1>1, <1>4, <1>5

LEMMA SellerRestartsKept ==
  ASSUME StarterKitAssumption, MarketInv, FirstLife, NEW s \in MarketSellers, market!SellerRestarts(s)
  PROVE  FirstLife'
  <1>1. /\ quoted' = [quoted EXCEPT ![s] = [r \in Rounds |-> 0]]
        /\ \/ unread' = [unread EXCEPT ![s] = <<>>] \/ unread' = unread
           \/ job[s] # NoJob /\ unread' = [unread EXCEPT ![s] = Tail(@)]
        /\ UNCHANGED <<works, pc, round, bids, winner, terms, deposits, releases>>
    BY DEF market!SellerRestarts, market!buyerVars, market!history, NoJob, Rounds
  <1>2. MarketTyped /\ s \in Agents /\ Nobody \in Agents /\ \A a \in MarketSellers : a \in Agents
    BY StarterFacts DEF MarketInv
  <1>3. \A a \in MarketSellers, r \in Rounds : quoted'[a][r] = quoted[a][r] \/ quoted'[a][r] = 0
    BY <1>1, <1>2 DEF MarketTyped
  <1>4. PICK k \in [Agents -> {0, 1}] : Moves(k, Sent({}, 0))
    <2>1. CASE unread' = [unread EXCEPT ![s] = <<>>] \/ unread' = unread
      BY <1>2, <2>1, LostMoves, ReadTyped
    <2>2. CASE job[s] # NoJob /\ unread' = [unread EXCEPT ![s] = Tail(@)]
      <3>1. unread[s] # <<>>
        BY <1>2, <2>2 DEF MarketTyped
      <3> QED BY <1>2, <2>2, <3>1, DiscardMoves, ReadTyped
    <2> QED BY <1>1, <2>1, <2>2
  <1>5. \A a \in Agents : Sent({}, 0)[a] = {}
    BY DEF Sent
  <1> QED BY <1>1, <1>2, <1>3, <1>4, <1>5, SellerStaysQuiet

LEMMA FirstLifeInitial == ASSUME StarterKitAssumption, Init PROVE LifeInv
  <1>1. /\ pc = "start" /\ round = 0 /\ bids = market!NoBids /\ restarts = 0
        /\ quoted = [s \in MarketSellers |-> [r \in Rounds |-> 0]]
        /\ unread = [a \in Agents |-> <<>>]
        /\ deposits = [e \in Escrows |-> 0] /\ releases = deposits
    BY DEF Init, market!Init, Rounds, Agents, Escrows
  <1>2. Nobody \in Agents /\ \A s \in MarketSellers : s \in Agents
    BY StarterFacts
  <1>3. \A a \in Agents : (\A m : ~ Has(a, m)) /\ DOMAIN unread[a] = {}
    BY <1>1 DEF Has
  <1>4. \A s \in MarketSellers, r \in Rounds, p \in Prices : ~ Asked(s, r, p)
    <2>1. DOMAIN bids = {}
      BY <1>1 DEF market!NoBids
    <2>2. 0 \notin Prices
      BY StarterFacts
    <2> QED BY <1>1, <1>2, <1>3, <2>1, <2>2 DEF Asked
  <1>5. \A s \in MarketSellers : \A r, n : ~ IsWant(s, r, n)
    BY <1>2, <1>3 DEF IsWant
  <1>6. Prompted
    BY <1>4, <1>5 DEF Prompted, OnePrice, WantedOnce, NotAskedYet
  <1>7. OneAward
    BY <1>2, <1>3 DEF OneAward
  <1>8. OneDeposit /\ OneRelease /\ Settles
    BY <1>1 DEF OneDeposit, OneRelease, Settles, Paying
  <1> QED BY <1>1, <1>6, <1>7, <1>8 DEF LifeInv, FirstLife, Settled

LEMMA MarketStepKept ==
  ASSUME StarterKitAssumption, MarketInv, LifeInv, market!Next PROVE LifeInv'
  <1>1. CASE market!BuyerRestarts
    BY <1>1 DEF market!BuyerRestarts, LifeInv
  <1>2. CASE ~ market!BuyerRestarts
    <2>1. UNCHANGED restarts
      BY <1>2 DEF market!Next, market!Buyer, market!SellerStep, market!Want, market!CollectBid,
        market!AwardWinner, market!NextRound, market!ReceiveTerms, market!Deposit, market!AwaitDelivery,
        market!ReleaseFunds, market!OtherThanBuyer, market!Bid, market!Quote, market!RefuseDeposit,
        market!Work, market!Delivered, market!IgnoreMention, market!SellerRestarts, market!OtherThanSeller
    <2>2. FirstLife => FirstLife'
      BY <1>2, WantKept, CollectBidKept, AwardWinnerKept, NextRoundKept, ReceiveTermsKept, DepositKept,
         AwaitDeliveryKept, ReleaseFundsKept, BidKept, QuoteKept, RefuseDepositKept, WorkKept,
         DeliveredKept, SellerRestartsKept
      DEF market!Next, market!Buyer, market!SellerStep
    <2> QED BY <2>1, <2>2 DEF LifeInv
  <1> QED BY <1>1, <1>2

LEMMA LifePreserved == ASSUME StarterKitAssumption, MarketInv, LifeInv, [Next]_vars PROVE LifeInv'
  <1>1. CASE Market
    BY <1>1, MarketStepKept DEF Market
  <1>2. CASE UNCHANGED marketVars
    <2>1. Prompted' = Prompted
      <3>1. \A s, r, p : Asked(s, r, p)' = Asked(s, r, p)
        BY <1>2 DEF marketVars, Asked, Has, Bids, Terms, Rounds, market!Rounds, Prices, market!Prices,
          market!References, market!boundReference
      <3> QED BY <1>2, <3>1 DEF marketVars, Prompted, OnePrice, WantedOnce, NotAskedYet, IsWant,
             Rounds, market!Rounds, Prices, market!Prices
    <2>2. OneAward' = OneAward /\ Settles' = Settles
      BY <1>2 DEF marketVars, OneAward, Has, TheWinner, Settling, Settles, Paying, Awards, Terms, Rounds,
        market!Rounds, Prices, market!Prices, market!References, market!boundReference
    <2>3. OneDeposit' = OneDeposit /\ OneRelease' = OneRelease
      BY <1>2 DEF marketVars, OneDeposit, OneRelease, TermsEscrow, market!EscrowFor,
        market!arbitratedEscrowPda, market!escrowPda, Escrows, market!Escrows, market!References,
        market!Rounds, market!Prices
    <2> QED BY <1>2, <2>1, <2>2, <2>3 DEF marketVars, LifeInv, FirstLife, Settled
  <1> QED BY <1>1, <1>2 DEF Next, Quickstart, Broker, Bridge, vars

\* Until it restarts, the market's buyer locks the price of the bid that it
\* chose, for the seller that made it, and pays each escrow only for work that
\* was begun, for any sellers, wallets, rounds and prices.
THEOREM BuyerPaysTheBid == Spec => []PaysTheBidForTheWork
  <1>1. Init => LifeInv
    BY FirstLifeInitial, StarterKitAssumption
  <1>2. MarketInv /\ LifeInv /\ [Next]_vars => LifeInv'
    BY LifePreserved, StarterKitAssumption
  <1>3. ASSUME MarketInv, LifeInv PROVE PaysTheBidForTheWork
    <2>1. ASSUME restarts = 0 PROVE FirstLife
      BY <1>3, <2>1 DEF LifeInv
    <2>2. ASSUME FirstLife, NEW e \in Escrows PROVE releases[e] <= works[e]
      <3>1. releases[e] > 0 => works[e] > 0 /\ releases[e] = 1
        BY <2>2 DEF FirstLife, Settled, OneRelease
      <3> QED BY <1>3, <3>1, ToDoCounted
    <2> QED BY <2>1, <2>2 DEF PaysTheBidForTheWork, market!PaysTheBidForTheWork, FirstLife, Settled,
           Settles, Paying, Escrows
  <1> QED BY <1>1, <1>2, <1>3, MarketSafe, PTL DEF Spec

-----------------------------------------------------------------------------
(***************************************************************************)
(* What the feed shows.                                                    *)
(***************************************************************************)
Tables == UNION {[D -> Prices] : D \in SUBSET MarketSellers}
Statuses == {"bidding", "awarded", "deposited", "delivered", "settled"}
ShownRound == [bids : Tables, award : Agents, amount : Prices \cup {0}, deposits : Nat, authz : {"none"},
               stages : {[st \in market!Feed!Stages |-> "none"]}, status : Statuses,
               delivered : BOOLEAN, released : BOOLEAN, refunded : BOOLEAN]
Views == [Rounds -> ShownRound]
NewView == [r \in Rounds |-> market!Feed!NewRound]

\* What a message changes of the round it is of.
Folded(v, m, w) ==
  LET old == v[m.round]
      new == w[m.round]
  IN  /\ \A r \in Rounds : r # m.round => w[r] = v[r]
      /\ new.bids = IF m.verb = "BID" THEN market!Feed!foldBid(old, m).bids ELSE old.bids
      /\ new.award = IF m.verb = "AWARD" THEN m.to ELSE old.award
      /\ new.amount = IF m.verb = "ESCROW_REQUIRED" THEN m.price ELSE old.amount
      /\ new.status = "settled" <=> m.verb = "RELEASED" \/ old.status = "settled"

LEMMA NewViewTyped == ASSUME StarterKitAssumption PROVE NewView \in Views
  <1>1. market!Feed!NoBids \in Tables
    <2>1. market!Feed!NoBids \in [{} -> Prices] /\ {} \in SUBSET MarketSellers
      BY DEF market!Feed!NoBids
    <2> QED BY <2>1 DEF Tables
  <1>2. Nobody \in Agents
    BY StarterFacts
  <1>3. market!Feed!NewRound \in ShownRound
    BY <1>1, <1>2 DEF market!Feed!NewRound, ShownRound, Statuses
  <1> QED BY <1>3 DEF NewView, Views

\* The table of the bids with one more, or as it was.
LEMMA FoldBidTyped ==
  ASSUME NEW r \in ShownRound, NEW m \in Bids
  PROVE  /\ market!Feed!foldBid(r, m) \in ShownRound
         /\ market!Feed!foldBid(r, m) = [r EXCEPT !.bids = market!Feed!foldBid(r, m).bids]
  <1>1. m.by \in MarketSellers /\ m.price \in Prices
    BY DEF Bids
  <1>2. CASE m.by \in DOMAIN r.bids
    BY <1>2 DEF market!Feed!foldBid, ShownRound
  <1>3. CASE m.by \notin DOMAIN r.bids
    <2>1. PICK b : b = [s \in DOMAIN r.bids \cup {m.by} |-> IF s = m.by THEN m.price ELSE r.bids[s]]
      OBVIOUS
    <2>2. r.bids \in Tables
      BY DEF ShownRound, Statuses
    <2>3. PICK D \in SUBSET MarketSellers : r.bids \in [D -> Prices]
      BY <2>2 DEF Tables
    <2>4. b \in [D \cup {m.by} -> Prices]
      BY <1>1, <2>1, <2>3
    <2>5. b \in Tables
      BY <1>1, <2>4 DEF Tables
    <2>6. market!Feed!foldBid(r, m) = [r EXCEPT !.bids = b]
      BY <1>3, <2>1 DEF market!Feed!foldBid
    <2> QED BY <2>5, <2>6 DEF ShownRound, Statuses
  <1> QED BY <1>2, <1>3

LEMMA FoldMessage ==
  ASSUME NEW v \in Views, NEW m \in Messages
  PROVE  market!Feed!foldMessage(v, m) \in Views /\ Folded(v, m, market!Feed!foldMessage(v, m))
  <1>1. PICK r : r = v[m.round]
    OBVIOUS
  <1>2. PICK w : w = market!Feed!foldMessage(v, m)
    OBVIOUS
  <1>3. m.round \in Rounds /\ r \in ShownRound
    BY <1>1 DEF Messages, Wants, Bids, Awards, Terms, Payments, Deliveries, Views
  <1>. DEFINE To(q) == w = [v EXCEPT ![m.round] = q]
              Kept(q) == q.bids = r.bids /\ q.award = r.award /\ q.amount = r.amount
  <1>4. ASSUME NEW q \in ShownRound, To(q)
        PROVE  w \in Views /\ w[m.round] = q /\ \A i \in Rounds : i # m.round => w[i] = v[i]
    BY <1>3, <1>4 DEF Views
  <1>5. CASE m.verb = "BID"
    <2>1. To(market!Feed!foldBid(r, m))
      BY <1>1, <1>2, <1>5 DEF market!Feed!foldMessage
    <2>2. m \in Bids
      BY <1>5, MessageKinds
    <2>3. PICK q : q = market!Feed!foldBid(r, m)
      OBVIOUS
    <2>4. q \in ShownRound /\ q = [r EXCEPT !.bids = q.bids]
      BY <1>3, <2>2, <2>3, FoldBidTyped
    <2>5. q.award = r.award /\ q.amount = r.amount /\ q.status = r.status
      BY <1>3, <2>4 DEF ShownRound, Statuses
    <2>6. w \in Views /\ w[m.round] = q /\ \A i \in Rounds : i # m.round => w[i] = v[i]
      BY <1>4, <2>1, <2>3, <2>4
    <2> QED BY <1>1, <1>2, <1>5, <2>3, <2>5, <2>6 DEF Folded
  <1>6. CASE m.verb = "AWARD"
    <2>1. PICK q : q = [r EXCEPT !.award = m.to,
                                 !.status = IF r.status = "bidding" THEN "awarded" ELSE r.status]
      OBVIOUS
    <2>2. To(q)
      BY <1>1, <1>2, <1>6, <2>1 DEF market!Feed!foldMessage, market!Feed!foldAward
    <2>3. m.to \in Agents
      BY <1>6, MessageKinds DEF Awards, Agents, market!Agents
    <2>4. /\ q \in ShownRound /\ q.bids = r.bids /\ q.award = m.to /\ q.amount = r.amount
          /\ q.status = "settled" <=> r.status = "settled"
      BY <1>3, <2>1, <2>3 DEF ShownRound, Statuses
    <2>5. w \in Views /\ w[m.round] = q /\ \A i \in Rounds : i # m.round => w[i] = v[i]
      BY <1>4, <2>2, <2>4
    <2> QED BY <1>1, <1>2, <1>6, <2>4, <2>5 DEF Folded
  <1>7. CASE m.verb = "ESCROW_REQUIRED"
    <2>1. PICK q : q = [r EXCEPT !.amount = m.price]
      OBVIOUS
    <2>2. To(q)
      BY <1>1, <1>2, <1>7, <2>1 DEF market!Feed!foldMessage
    <2>3. m.price \in Prices
      BY <1>7, MessageKinds DEF Terms
    <2>4. /\ q \in ShownRound /\ q.bids = r.bids /\ q.award = r.award /\ q.amount = m.price
          /\ q.status = r.status
      BY <1>3, <2>1, <2>3 DEF ShownRound, Statuses
    <2>5. w \in Views /\ w[m.round] = q /\ \A i \in Rounds : i # m.round => w[i] = v[i]
      BY <1>4, <2>2, <2>4
    <2> QED BY <1>1, <1>2, <1>7, <2>4, <2>5 DEF Folded
  <1>8. CASE m.verb = "RELEASED"
    <2>1. PICK q : q = [r EXCEPT !.status = "settled", !.released = TRUE]
      OBVIOUS
    <2>2. To(q)
      BY <1>1, <1>2, <1>8, <2>1 DEF market!Feed!foldMessage
    <2>3. q \in ShownRound /\ Kept(q) /\ q.status = "settled"
      BY <1>3, <2>1 DEF ShownRound, Statuses
    <2>4. w \in Views /\ w[m.round] = q /\ \A i \in Rounds : i # m.round => w[i] = v[i]
      BY <1>4, <2>2, <2>3
    <2> QED BY <1>1, <1>2, <1>8, <2>3, <2>4 DEF Folded
  <1>9. CASE m.verb \in {"DEPOSITED", "DELIVERED"}
    <2>1. PICK d \in Nat, y \in BOOLEAN, st \in Statuses :
            /\ To([r EXCEPT !.status = st, !.deposits = d, !.delivered = y])
            /\ st = "settled" <=> r.status = "settled"
      <3>1. CASE m.verb = "DEPOSITED"
        <4>0. r.status \in Statuses /\ "deposited" \in Statuses /\ r.deposits + 1 \in Nat
          BY <1>3 DEF ShownRound, Statuses
        <4>1. PICK st \in Statuses, d \in Nat : /\ st = IF r.status = "settled" THEN r.status ELSE "deposited"
                                             /\ d = r.deposits + 1
          BY <4>0
        <4>2. [[r EXCEPT !.status = st] EXCEPT !.deposits = d]
                = [r EXCEPT !.status = st, !.deposits = d, !.delivered = r.delivered]
          BY <1>3 DEF ShownRound, Statuses
        <4>3. market!Feed!unlessSettled(r, "deposited") = [r EXCEPT !.status = st]
          BY <1>3, <4>1 DEF market!Feed!unlessSettled
        <4>4. [r EXCEPT !.status = st].deposits + 1 = d
          BY <1>3, <4>1 DEF ShownRound, Statuses
        <4>5. To([[r EXCEPT !.status = st] EXCEPT !.deposits = d])
          BY <1>1, <1>2, <3>1, <4>3, <4>4 DEF market!Feed!foldMessage
        <4>6. r.delivered \in BOOLEAN
          BY <1>3 DEF ShownRound, Statuses
        <4>7. /\ To([r EXCEPT !.status = st, !.deposits = d, !.delivered = r.delivered])
              /\ st = "settled" <=> r.status = "settled"
          BY <4>1, <4>2, <4>5
        <4>. HIDE DEF To
        <4> QED BY <4>1, <4>6, <4>7
      <3>2. CASE m.verb = "DELIVERED"
        <4>0. r.status \in Statuses /\ "delivered" \in Statuses
          BY <1>3 DEF ShownRound, Statuses
        <4>1. PICK st \in Statuses : st = IF r.status = "settled" THEN r.status ELSE "delivered"
          BY <4>0
        <4>2. [[r EXCEPT !.status = st] EXCEPT !.delivered = TRUE]
                = [r EXCEPT !.status = st, !.deposits = r.deposits, !.delivered = TRUE]
          BY <1>3 DEF ShownRound, Statuses
        <4>3. market!Feed!unlessSettled(r, "delivered") = [r EXCEPT !.status = st]
          BY <1>3, <4>1 DEF market!Feed!unlessSettled
        <4>4. To([[r EXCEPT !.status = st] EXCEPT !.delivered = TRUE])
          BY <1>1, <1>2, <3>2, <4>3 DEF market!Feed!foldMessage
        <4>5. r.deposits \in Nat
          BY <1>3 DEF ShownRound, Statuses
        <4> QED BY <4>1, <4>2, <4>4, <4>5
      <3> QED BY <1>9, <3>1, <3>2
    <2>2. PICK q : q = [r EXCEPT !.status = st, !.deposits = d, !.delivered = y]
      OBVIOUS
    <2>3. q \in ShownRound /\ Kept(q) /\ (q.status = "settled" <=> r.status = "settled")
      BY <1>3, <2>1, <2>2 DEF ShownRound, Statuses
    <2>4. w \in Views /\ w[m.round] = q /\ \A i \in Rounds : i # m.round => w[i] = v[i]
      BY <1>4, <2>1, <2>2, <2>3
    <2> QED BY <1>1, <1>2, <1>9, <2>3, <2>4 DEF Folded
  <1>10. CASE m.verb \in {"WANT", "ARBITER_RELEASED"}
    <2>1. To(r)
      BY <1>1, <1>2, <1>10 DEF market!Feed!foldMessage
    <2>2. w \in Views /\ w[m.round] = r /\ \A i \in Rounds : i # m.round => w[i] = v[i]
      BY <1>3, <1>4, <2>1
    <2> QED BY <1>1, <1>2, <1>10, <2>2 DEF Folded
  <1>11. m.verb \in {"WANT", "BID", "AWARD", "ESCROW_REQUIRED", "DEPOSITED", "RELEASED",
                    "ARBITER_RELEASED", "DELIVERED"}
    BY DEF Messages, Wants, Bids, Awards, Terms, Payments, Deliveries
  <1> QED BY <1>2, <1>5, <1>6, <1>7, <1>8, <1>9, <1>10, <1>11

\* The fold of a transcript, message by message.
FoldStep == [p \in Views \X Messages |-> market!Feed!foldMessage(p[1], p[2])]
FoldsTo(f, ms) == /\ Steps(f, FoldStep, NewView, ms, Len(ms)) /\ f \in [0 .. Len(ms) -> Views]
                  /\ market!Feed!foldRounds(ms) = f[Len(ms)]
FoldOver(h, ms) ==
  h = [s \in SUBSET DOMAIN ms |->
         IF s = {} THEN NewView ELSE market!Feed!foldMessage(h[s \ {Largest(s)}], ms[Largest(s)])]

LEMMA FoldStepTyped ==
  /\ FoldStep \in [Views \X Messages -> Views]
  /\ \A v \in Views, m \in Messages : FoldStep[v, m] = market!Feed!foldMessage(v, m)
  <1>1. \A v \in Views, m \in Messages : market!Feed!foldMessage(v, m) \in Views
    BY FoldMessage
  <1>2. \A p \in Views \X Messages : p[1] \in Views /\ p[2] \in Messages
    OBVIOUS
  <1>3. FoldStep \in [Views \X Messages -> Views]
    BY <1>1, <1>2 DEF FoldStep
  <1>4. ASSUME NEW v \in Views, NEW m \in Messages PROVE FoldStep[v, m] = market!Feed!foldMessage(v, m)
    BY DEF FoldStep
  <1> QED BY <1>3, <1>4

LEMMA FoldIs ==
  ASSUME StarterKitAssumption, NEW ms \in Seq(Messages)
  PROVE  \E h : FoldOver(h, ms) /\ market!Feed!foldRounds(ms) = h[DOMAIN ms]
  <1>1. market!Feed!foldRounds(ms) = (CHOOSE h : FoldOver(h, ms))[DOMAIN ms]
    BY DEF market!Feed!foldRounds, market!Feed!FoldLeft, market!Feed!MapThenFoldSet, market!Feed!Max,
       FoldOver, Largest, NewView, Rounds
  <1>2. PICK n \in Nat : n = Len(ms)
    BY LenProperties
  <1>3. DOMAIN ms = 1 .. n /\ \A i \in 1 .. n : ms[i] \in Messages
    BY <1>2, LenProperties, ElementOfSeq
  <1>4. Foldable(Views, FoldStep, NewView, ms, n)
    BY <1>3, FoldStepTyped, NewViewTyped, FoldingExists
  <1>5. PICK g \in [SUBSET (1 .. n) -> Views] : Folding(g, FoldStep, NewView, ms, n)
    BY <1>4 DEF Foldable
  <1>6. ASSUME NEW s \in SUBSET (1 .. n), s # {}
        PROVE  g[s] = market!Feed!foldMessage(g[s \ {Largest(s)}], ms[Largest(s)])
    <2>1. g[s] = FoldStep[g[s \ {Largest(s)}], ms[Largest(s)]]
      BY <1>5, <1>6 DEF Folding
    <2>2. Largest(s) \in 1 .. n /\ s \ {Largest(s)} \in SUBSET (1 .. n)
      BY <1>6, LargestIs
    <2> QED BY <1>3, <1>5, <2>1, <2>2, FoldStepTyped
  <1>7. \A s \in SUBSET (1 .. n) : s = {} => g[s] = NewView
    BY <1>5 DEF Folding
  <1>8. FoldOver(g, ms)
    BY <1>3, <1>5, <1>6, <1>7 DEF FoldOver
  <1> QED BY <1>1, <1>8

LEMMA FoldSteps ==
  ASSUME StarterKitAssumption, NEW ms \in Seq(Messages)
  PROVE  \E f : FoldsTo(f, ms)
  <1>1. PICK h : FoldOver(h, ms) /\ market!Feed!foldRounds(ms) = h[DOMAIN ms]
    BY FoldIs
  <1>2. PICK n \in Nat : n = Len(ms)
    BY LenProperties
  <1>3. DOMAIN ms = 1 .. n /\ \A i \in 1 .. n : ms[i] \in Messages
    BY <1>2, LenProperties, ElementOfSeq
  <1>4. h[1 .. 0] = NewView
    <2>1. 1 .. 0 = {} /\ 1 .. 0 \in SUBSET DOMAIN ms
      OBVIOUS
    <2> QED BY <1>1, <2>1 DEF FoldOver
  <1>5. ASSUME NEW k \in Nat, k + 1 <= n
        PROVE  h[1 .. k + 1] = market!Feed!foldMessage(h[1 .. k], ms[k + 1])
    <2>1. PICK s : s = 1 .. k + 1
      OBVIOUS
    <2>2. s # {} /\ s \in SUBSET DOMAIN ms
      <3>1. k + 1 \in s /\ \A i \in s : i \in 1 .. n
        BY <1>5, <2>1
      <3> QED BY <1>3, <3>1
    <2>3. Largest(s) = k + 1 /\ s \ {Largest(s)} = 1 .. k
      BY <2>1, WithoutLargest
    <2> QED BY <1>1, <2>1, <2>2, <2>3 DEF FoldOver
  <1>6. PICK N : N = {k \in Nat : k <= n => h[1 .. k] \in Views}
    OBVIOUS
  <1>7. 0 \in N
    BY <1>4, <1>6, NewViewTyped
  <1>8. ASSUME NEW k \in Nat, k \in N PROVE k + 1 \in N
    <2>1. ASSUME k + 1 <= n PROVE h[1 .. k + 1] \in Views
      <3>1. h[1 .. k] \in Views /\ ms[k + 1] \in Messages
        BY <1>3, <1>6, <1>8, <2>1
      <3> QED BY <1>5, <2>1, <3>1, FoldMessage
    <2> QED BY <1>6, <2>1
  <1>9. Nat \subseteq N
    BY <1>7, <1>8, NatSet
  <1>10. PICK f : f = [k \in 0 .. n |-> h[1 .. k]]
    OBVIOUS
  <1>11. f \in [0 .. n -> Views]
    BY <1>6, <1>9, <1>10
  <1>12. ASSUME NEW k \in Nat, k + 1 <= n PROVE f[k + 1] = FoldStep[f[k], ms[k + 1]]
    <2>1. f[k + 1] = h[1 .. k + 1] /\ f[k] = h[1 .. k] /\ f[k] \in Views /\ ms[k + 1] \in Messages
      BY <1>3, <1>10, <1>11, <1>12
    <2> QED BY <1>5, <1>12, <2>1, FoldStepTyped
  <1>13. f[0] = NewView /\ f[n] = h[1 .. n]
    BY <1>4, <1>10
  <1> QED BY <1>1, <1>2, <1>3, <1>11, <1>12, <1>13 DEF FoldsTo, Steps

\* One message more is folded into what was shown.
LEMMA FoldMore ==
  ASSUME StarterKitAssumption, NEW ms \in Seq(Messages), NEW m \in Messages
  PROVE  /\ market!Feed!foldRounds(ms) \in Views
         /\ market!Feed!foldRounds(Append(ms, m)) \in Views
         /\ Folded(market!Feed!foldRounds(ms), m, market!Feed!foldRounds(Append(ms, m)))
  <1>1. PICK f : FoldsTo(f, ms)
    BY FoldSteps
  <1>2. PICK ext : ext = Append(ms, m)
    OBVIOUS
  <1>3. PICK n \in Nat : n = Len(ms)
    BY LenProperties
  <1>4. /\ ext \in Seq(Messages) /\ Len(ext) = n + 1 /\ ext[n + 1] = m
        /\ \A i \in 1 .. n : ext[i] = ms[i]
    BY <1>2, <1>3, AppendProperties
  <1>5. PICK h : FoldsTo(h, ext)
    BY <1>4, FoldSteps
  <1>6. h[n] = f[n]
    <2>1. Steps(f, FoldStep, NewView, ms, n) /\ Steps(h, FoldStep, NewView, ext, n + 1)
      BY <1>1, <1>3, <1>4, <1>5 DEF FoldsTo
    <2>2. n + 1 \in Nat /\ n <= n + 1
      OBVIOUS
    <2> QED BY <1>4, <2>1, <2>2, StepsAgree
  <1>7. h[n + 1] = FoldStep[h[n], ext[n + 1]]
    <2>1. Steps(h, FoldStep, NewView, ext, n + 1)
      BY <1>4, <1>5 DEF FoldsTo
    <2>2. n \in Nat /\ n + 1 <= n + 1
      OBVIOUS
    <2> QED BY <2>1, <2>2 DEF Steps
  <1>8. f[n] \in Views
    BY <1>1, <1>3 DEF FoldsTo
  <1>9. market!Feed!foldRounds(ext) = market!Feed!foldMessage(market!Feed!foldRounds(ms), m)
    <2>1. market!Feed!foldRounds(ext) = h[n + 1] /\ market!Feed!foldRounds(ms) = f[n]
      BY <1>1, <1>3, <1>4, <1>5 DEF FoldsTo
    <2> QED BY <1>4, <1>6, <1>7, <1>8, <2>1, FoldStepTyped
  <1>10. market!Feed!foldRounds(ms) \in Views
    BY <1>1, <1>3, <1>8 DEF FoldsTo
  <1> QED BY <1>2, <1>9, <1>10, FoldMessage

\* A round is shown as settled when its release was said.
LEMMA SettledIsSaid ==
  ASSUME StarterKitAssumption, NEW ms \in Seq(Messages), NEW r \in Rounds
  PROVE  market!Feed!foldRounds(ms)[r].status = "settled"
           <=> \E m : In(m, ms) /\ m.verb = "RELEASED" /\ m.round = r
  <1>1. PICK f : FoldsTo(f, ms)
    BY FoldSteps
  <1>2. PICK n \in Nat : n = Len(ms)
    BY LenProperties
  <1>3. DOMAIN ms = 1 .. n /\ \A i \in 1 .. n : ms[i] \in Messages
    BY <1>2, LenProperties, ElementOfSeq
  <1>. DEFINE SaidBy(k) == \E i \in 1 .. k : ms[i].verb = "RELEASED" /\ ms[i].round = r
  <1>4. PICK N : N = {k \in Nat : k <= n => (f[k][r].status = "settled" <=> SaidBy(k))}
    OBVIOUS
  <1>5. 0 \in N
    <2>1. f[0][r].status = "bidding"
      <3>1. f[0] = NewView
        BY <1>1 DEF FoldsTo, Steps
      <3>2. market!Feed!NewRound.status = "bidding"
        BY DEF market!Feed!NewRound
      <3> QED BY <3>1, <3>2 DEF NewView
    <2>2. ~ SaidBy(0)
      OBVIOUS
    <2>. HIDE DEF SaidBy
    <2> QED BY <1>4, <2>1, <2>2
  <1>6. ASSUME NEW k \in Nat, k \in N PROVE k + 1 \in N
    <2>1. ASSUME k + 1 <= n PROVE f[k + 1][r].status = "settled" <=> SaidBy(k + 1)
      <3>1. ms[k + 1] \in Messages /\ f[k] \in Views
        BY <1>1, <1>2, <1>3, <2>1 DEF FoldsTo
      <3>2. f[k + 1] = market!Feed!foldMessage(f[k], ms[k + 1])
        BY <1>1, <1>2, <2>1, <3>1, FoldStepTyped DEF FoldsTo, Steps
      <3>3. f[k + 1] \in Views /\ Folded(f[k], ms[k + 1], f[k + 1])
        BY <3>1, <3>2, FoldMessage
      <3>4. f[k + 1][r].status = "settled" <=>
              (ms[k + 1].verb = "RELEASED" /\ ms[k + 1].round = r) \/ f[k][r].status = "settled"
        BY <3>3 DEF Folded
      <3>5. f[k][r].status = "settled" <=> SaidBy(k)
        BY <1>4, <1>6, <2>1
      <3>6. \A i : i \in 1 .. k + 1 <=> i \in 1 .. k \/ i = k + 1
        OBVIOUS
      <3> QED BY <3>4, <3>5, <3>6
    <2> QED BY <1>4, <2>1
  <1>7. Nat \subseteq N
    BY <1>5, <1>6, NatSet
  <1>8. f[n][r].status = "settled" <=> SaidBy(n)
    BY <1>4, <1>7
  <1>9. SaidBy(n) <=> \E m : In(m, ms) /\ m.verb = "RELEASED" /\ m.round = r
    BY <1>3 DEF In
  <1> QED BY <1>1, <1>2, <1>8, <1>9 DEF FoldsTo

\* The feed reads the threads one behind the other.
LEMMA CollectedAre ==
  ASSUME NEW ts \in Seq(Seq(Messages)), Len(ts) >= 1
  PROVE  /\ market!Feed!collectMessages(ts) \in Seq(Messages)
         /\ \A m : In(m, market!Feed!collectMessages(ts)) <=> \E t \in DOMAIN ts : In(m, ts[t])
         /\ Len(ts) = 1 => market!Feed!collectMessages(ts) = ts[1]
  <1>1. PICK n \in Nat : n = Len(ts)
    BY LenProperties
  <1>2. DOMAIN ts = 1 .. n /\ (\A i \in 1 .. n : ts[i] \in Seq(Messages)) /\ n \in 1 .. n
    BY <1>1, LenProperties, ElementOfSeq
  <1>3. market!Feed!collectMessages(ts) = (CHOOSE f : Flattens(f, ts, n))[n]
    BY <1>1 DEF market!Feed!collectMessages, market!Feed!FlattenSeq, Flattens
  <1>4. PICK f : Flattens(f, ts, n) /\ market!Feed!collectMessages(ts) = f[n]
    BY <1>3, FlattensExists
  <1>5. Whole(f, Messages, ts, n) /\ (n = 1 => f[n] = ts[n])
    BY <1>2, <1>4, FlattensAll
  <1> QED BY <1>1, <1>2, <1>4, <1>5 DEF Whole

-----------------------------------------------------------------------------
\* Every mention is of a thread there is, and no release is told that was not
\* made.
Addressed == \A a \in Agents : \A x : In(x, unread[a]) => x.thread \in DOMAIN threads
ReleasesTold ==
  \A t \in DOMAIN threads : \A m : In(m, threads[t]) /\ m.verb = "RELEASED" => releases[m.escrow] > 0
TalkInv == Len(threads) = restarts + 1 /\ Addressed /\ ReleasesTold

\* A step in which m is said in thread t, and one in which nothing is.
Says(m, t) ==
  /\ t \in DOMAIN threads /\ threads' = [threads EXCEPT ![t] = Append(@, m)]
  /\ \A a \in Agents : \A x : In(x, unread'[a]) => In(x, unread[a]) \/ x = [m |-> m, thread |-> t]
Quiet ==
  /\ UNCHANGED threads
  /\ \A a \in Agents : \A x : In(x, unread'[a]) => In(x, unread[a])

LEMMA DeliverSays ==
  ASSUME StarterKitAssumption, MarketTyped, NEW m \in Messages, NEW to, NEW t \in DOMAIN threads,
         NEW readers \in SUBSET Agents, \A a \in readers : unread[a] # <<>>,
         market!Deliver(m, to, t, readers)
  PROVE  Says(m, t)
  <1>1. /\ threads' = [threads EXCEPT ![t] = Append(@, m)]
        /\ unread' = [a \in Agents |->
             IF a \in to THEN Append(IF a \in readers THEN Tail(unread[a]) ELSE unread[a], [m |-> m, thread |-> t])
             ELSE IF a \in readers THEN Tail(unread[a]) ELSE unread[a]]
    BY DEF market!Deliver, Agents
  <1>2. [m |-> m, thread |-> t] \in Mail
    <2>1. t \in Nat
      BY LenProperties DEF MarketTyped
    <2> QED BY <2>1 DEF Mail
  <1>3. ASSUME NEW a \in Agents, NEW x, In(x, unread'[a]) PROVE In(x, unread[a]) \/ x = [m |-> m, thread |-> t]
    <2>1. PICK c : c = IF a \in readers THEN Tail(unread[a]) ELSE unread[a]
      OBVIOUS
    <2>2. unread[a] \in Seq(Mail) /\ (a \in readers => unread[a] # <<>>)
      BY DEF MarketTyped
    <2>3. c \in Seq(Mail)
      BY <2>1, <2>2, HeadTailProperties
    <2>4. In(x, c) => In(x, unread[a])
      BY <2>1, <2>2, InTail
    <2>5. unread'[a] = IF a \in to THEN Append(c, [m |-> m, thread |-> t]) ELSE c
      BY <1>1, <2>1
    <2>6. a \in to => In(x, c) \/ x = [m |-> m, thread |-> t]
      BY <1>2, <1>3, <2>3, <2>5, InAppend
    <2> QED BY <1>3, <2>4, <2>5, <2>6
  <1> QED BY <1>1, <1>3 DEF Says

LEMMA SendSays ==
  ASSUME StarterKitAssumption, MarketTyped, LifeInv, TalkInv, NEW m \in Messages, NEW to, market!Send(m, to)
  PROVE  Says(m, Len(threads))
  <1>1. Len(threads) \in DOMAIN threads
    <2>1. threads \in Seq(Seq(Messages)) /\ restarts \in Nat
      BY DEF MarketTyped, LifeInv
    <2>2. DOMAIN threads = 1 .. Len(threads)
      BY <2>1, LenProperties
    <2> QED BY <2>1, <2>2 DEF TalkInv
  <1>2. market!Deliver(m, to, Len(threads), {})
    BY DEF market!Send, market!MyThread
  <1>3. {} \in SUBSET Agents /\ \A a \in {} : unread[a] # <<>>
    OBVIOUS
  <1> QED BY <1>1, <1>2, <1>3, DeliverSays

LEMMA ReplySays ==
  ASSUME StarterKitAssumption, MarketTyped, TalkInv, NEW s \in MarketSellers, unread[s] # <<>>,
         NEW m \in Messages, market!Reply(s, m)
  PROVE  \E t : Says(m, t)
  <1>1. s \in Agents
    BY StarterFacts
  <1>2. Head(unread[s]).thread \in DOMAIN threads
    <2>1. unread[s] \in Seq(Mail)
      BY <1>1 DEF MarketTyped
    <2>2. 1 \in DOMAIN unread[s] /\ unread[s][1] = Head(unread[s])
      BY <2>1, EmptySeq, LenProperties
    <2>3. In(Head(unread[s]), unread[s])
      BY <2>2 DEF In
    <2> QED BY <1>1, <2>3 DEF TalkInv, Addressed
  <1>3. market!Deliver(m, {Nobody}, Head(unread[s]).thread, {s})
    BY DEF market!Reply
  <1>4. {s} \in SUBSET Agents /\ \A a \in {s} : unread[a] # <<>>
    BY <1>1
  <1> QED BY <1>2, <1>3, <1>4, DeliverSays

LEMMA DiscardQuiet ==
  ASSUME MarketTyped, NEW b \in Agents, unread[b] # <<>>, UNCHANGED threads,
         unread' = [unread EXCEPT ![b] = Tail(@)]
  PROVE  Quiet
  <1>1. ASSUME NEW a \in Agents, NEW x, In(x, unread'[a]) PROVE In(x, unread[a])
    <2>1. unread \in [Agents -> Seq(Mail)]
      BY DEF MarketTyped
    <2>2. CASE a = b
      <3>1. unread'[a] = Tail(unread[b]) /\ unread[b] \in Seq(Mail)
        BY <2>1, <2>2
      <3> QED BY <1>1, <2>2, <3>1, InTail
    <2>3. CASE a # b
      BY <1>1, <2>1, <2>3
    <2> QED BY <2>2, <2>3
  <1> QED BY <1>1 DEF Quiet

LEMMA LostQuiet ==
  ASSUME MarketTyped, NEW b \in Agents, UNCHANGED threads,
         unread' = unread \/ unread' = [unread EXCEPT ![b] = <<>>]
  PROVE  Quiet
  <1>1. ASSUME NEW a \in Agents, NEW x, In(x, unread'[a]) PROVE In(x, unread[a])
    <2>1. unread \in [Agents -> Seq(Mail)]
      BY DEF MarketTyped
    <2>2. DOMAIN <<>> = {}
      OBVIOUS
    <2>3. unread'[a] = unread[a] \/ unread'[a] = <<>>
      BY <2>1
    <2> QED BY <1>1, <2>2, <2>3 DEF In
  <1> QED BY <1>1 DEF Quiet

LEMMA TalkKept ==
  ASSUME StarterKitAssumption, MarketTyped, TalkInv, UNCHANGED restarts,
         \A e \in Escrows : releases[e] > 0 => releases'[e] > 0,
         Quiet \/ \E m \in Messages : \E t : Says(m, t) /\ (m.verb = "RELEASED" => releases'[m.escrow] > 0)
  PROVE  TalkInv'
  <1>1. threads \in Seq(Seq(Messages)) /\ Agents' = Agents
    BY DEF MarketTyped, Agents, market!Agents
  <1>2. \A t \in DOMAIN threads : \A m : In(m, threads[t]) /\ m.verb = "RELEASED" => m.escrow \in Escrows
    <2>1. ASSUME NEW t \in DOMAIN threads, NEW m, In(m, threads[t]), m.verb = "RELEASED" PROVE m.escrow \in Escrows
      <3>1. threads[t] \in Seq(Messages)
        BY <1>1, ElementOfSeq, LenProperties
      <3>2. m \in Messages
        BY <2>1, <3>1, ElementOfSeq, LenProperties DEF In
      <3>3. m \in Payments
        BY <2>1, <3>2, MessageKinds
      <3> QED BY <3>3 DEF Payments
    <2> QED BY <2>1
  <1>3. CASE Quiet
    <2>1. threads' = threads
      BY <1>3 DEF Quiet
    <2>2. Addressed'
      BY <1>1, <1>3, <2>1 DEF Quiet, TalkInv, Addressed
    <2>3. ReleasesTold'
      BY <1>2, <2>1 DEF TalkInv, ReleasesTold
    <2> QED BY <2>1, <2>2, <2>3 DEF TalkInv
  <1>4. ASSUME NEW m \in Messages, NEW t, Says(m, t), m.verb = "RELEASED" => releases'[m.escrow] > 0
        PROVE  TalkInv'
    <2>1. t \in DOMAIN threads /\ threads' = [threads EXCEPT ![t] = Append(threads[t], m)]
      BY <1>4 DEF Says
    <2>2. threads[t] \in Seq(Messages)
      BY <1>1, <2>1, ElementOfSeq, LenProperties
    <2>3. Len(threads') = Len(threads) /\ DOMAIN threads' = DOMAIN threads
      <3>1. Append(threads[t], m) \in Seq(Messages) /\ t \in 1 .. Len(threads)
        BY <1>1, <2>1, <2>2, AppendProperties, LenProperties
      <3>2. Len(threads') = Len(threads)
        BY <1>1, <2>1, <3>1, ExceptSeq
      <3> QED BY <2>1, <3>2
    <2>4. Addressed'
      BY <1>1, <1>4, <2>1, <2>3 DEF Says, TalkInv, Addressed
    <2>5. ASSUME NEW u \in DOMAIN threads, NEW x, In(x, threads'[u]), x.verb = "RELEASED"
          PROVE  releases'[x.escrow] > 0
      <3>1. In(x, threads[u]) \/ x = m
        <4>1. CASE u = t
          <5>1. threads'[u] = Append(threads[t], m)
            BY <2>1, <4>1
          <5> QED BY <2>2, <2>5, <4>1, <5>1, InAppend
        <4>2. CASE u # t
          BY <2>1, <2>5, <4>2
        <4> QED BY <4>1, <4>2
      <3>2. CASE In(x, threads[u])
        BY <1>2, <2>5, <3>2 DEF TalkInv, ReleasesTold
      <3> QED BY <1>4, <2>5, <3>1, <3>2
    <2>6. ReleasesTold'
      BY <2>3, <2>5 DEF ReleasesTold
    <2> QED BY <2>3, <2>4, <2>6 DEF TalkInv
  <1> QED BY <1>3, <1>4

\* A buyer that starts again opens a thread.
LEMMA RestartTalks ==
  ASSUME StarterKitAssumption, MarketTyped, LifeInv, TalkInv, market!BuyerRestarts
  PROVE  TalkInv'
  <1>1. /\ threads' = Append(threads, <<>>) /\ restarts' = restarts + 1 /\ UNCHANGED releases
        /\ unread' = unread \/ unread' = [unread EXCEPT ![Nobody] = <<>>]
    BY DEF market!BuyerRestarts, market!history
  <1>2. threads \in Seq(Seq(Messages)) /\ <<>> \in Seq(Messages) /\ unread \in [Agents -> Seq(Mail)] /\ restarts \in Nat
    BY EmptySeq DEF MarketTyped, LifeInv
  <1>3. /\ Len(threads') = Len(threads) + 1 /\ threads' \in Seq(Seq(Messages)) /\ threads'[Len(threads) + 1] = <<>>
        /\ \A t \in 1 .. Len(threads) : threads'[t] = threads[t]
    BY <1>1, <1>2, AppendProperties
  <1>4. DOMAIN threads = 1 .. Len(threads) /\ Len(threads) \in Nat /\ DOMAIN threads' = 1 .. Len(threads) + 1
    BY <1>2, <1>3, LenProperties
  <1>5. DOMAIN <<>> = {} /\ Agents' = Agents
    BY DEF Agents, market!Agents
  <1>6. Addressed'
    <2>1. ASSUME NEW a \in Agents, NEW x, In(x, unread'[a]) PROVE In(x, unread[a])
      <3>1. unread'[a] = unread[a] \/ unread'[a] = <<>>
        BY <1>1, <1>2
      <3> QED BY <1>5, <2>1, <3>1 DEF In
    <2>2. \A t \in DOMAIN threads : t \in DOMAIN threads'
      BY <1>4
    <2> QED BY <1>5, <2>1, <2>2 DEF Addressed, TalkInv
  <1>7. ReleasesTold'
    <2>1. ASSUME NEW t \in DOMAIN threads', NEW m, In(m, threads'[t]), m.verb = "RELEASED"
          PROVE  releases[m.escrow] > 0
      <3>1. t \in 1 .. Len(threads)
        BY <1>3, <1>4, <1>5, <2>1 DEF In
      <3> QED BY <1>3, <1>4, <2>1, <3>1 DEF TalkInv, ReleasesTold
    <2> QED BY <1>1, <2>1 DEF ReleasesTold
  <1>8. Len(threads') = restarts' + 1
    BY <1>1, <1>2, <1>3 DEF TalkInv
  <1> QED BY <1>6, <1>7, <1>8 DEF TalkInv

\* What the feed shows of the first thread, which holds all until a restart.
Show == market!Feed!foldRounds(threads[1])
Priced(s, r, p) == s \in DOMAIN Show[r].bids /\ Show[r].bids[s] = p
Deal(r) == Priced(Show[r].award, r, Show[r].amount)
DealEscrow(r) == market!EscrowFor(Show[r].award, market!boundReference(Show[r].award, r, Show[r].amount))

\* A seller is shown with the price that it asks, and without one before it
\* was asked.
ShownBids ==
  \A s \in MarketSellers, r \in Rounds :
    /\ \A p \in Prices : Asked(s, r, p) => Priced(s, r, p)
    /\ r > round \/ (\E n \in Nat : IsWant(s, r, n)) => s \notin DOMAIN Show[r].bids

\* Who is told of an award is shown with it.
ShownAward ==
  /\ \A s \in MarketSellers, m \in Awards : Has(s, m) => Show[m.round].award = s
  /\ Settling => Show[round].award = winner

\* The terms are shown when the buyer can hear of them, and are those of the bid
\* that was awarded.
ShownTerms ==
  /\ \A m \in Terms : Has(Nobody, m) => Show[m.round].amount # 0
  /\ Paying => Show[round].amount # 0
  /\ \A r \in Rounds : Show[r].amount # 0 => r <= round /\ (r = round => pc # "bids") /\ Deal(r)

\* What is shown as settled was paid on those terms.
ShownPaid ==
  \A r \in Rounds : Show[r].status = "settled" => Show[r].amount # 0 /\ releases[DealEscrow(r)] = 1

ShownInv == ShownBids /\ ShownAward /\ ShownTerms /\ ShownPaid
FeedInv == TalkInv /\ (restarts = 0 => ShownInv)

\* A step that shows no other bid, award, amount or settlement.
ShowSame ==
  \A r \in Rounds : /\ Show'[r].bids = Show[r].bids /\ Show'[r].award = Show[r].award
                    /\ Show'[r].amount = Show[r].amount
                    /\ (Show'[r].status = "settled") = (Show[r].status = "settled")

LEMMA OneThread ==
  ASSUME StarterKitAssumption, MarketTyped, TalkInv, restarts = 0
  PROVE  /\ DOMAIN threads = {1} /\ threads[1] \in Seq(Messages) /\ Show \in Views
         /\ \A m : In(m, threads[1]) => m \in Messages
  <1>1. threads \in Seq(Seq(Messages)) /\ Len(threads) = 1
    BY DEF MarketTyped, TalkInv
  <1>2. DOMAIN threads = 1 .. 1 /\ 1 .. 1 = {1}
    BY <1>1, LenProperties
  <1>3. threads[1] \in Seq(Messages)
    BY <1>1, <1>2, ElementOfSeq
  <1>4. \A m : In(m, threads[1]) => m \in Messages
    BY <1>3, ElementOfSeq, LenProperties DEF In
  <1>5. PICK f : FoldsTo(f, threads[1])
    BY <1>3, FoldSteps
  <1>6. Show = f[Len(threads[1])] /\ f \in [0 .. Len(threads[1]) -> Views] /\ Len(threads[1]) \in Nat
    BY <1>3, <1>5, LenProperties DEF FoldsTo, Show
  <1> QED BY <1>2, <1>3, <1>4, <1>6

LEMMA SpokenShows ==
  ASSUME StarterKitAssumption, MarketTyped, TalkInv, restarts = 0, NEW m \in Messages, NEW t, Says(m, t)
  PROVE  Show \in Views /\ Show' \in Views /\ Folded(Show, m, Show')
  <1>1. DOMAIN threads = {1} /\ threads[1] \in Seq(Messages)
    BY OneThread
  <1>2. threads'[1] = Append(threads[1], m)
    BY <1>1 DEF Says
  <1>3. Show' = market!Feed!foldRounds(Append(threads[1], m))
    BY <1>2 DEF Show
  <1>4. Show = market!Feed!foldRounds(threads[1])
    BY DEF Show
  <1> QED BY <1>1, <1>3, <1>4, FoldMore

LEMMA QuietShows ==
  ASSUME StarterKitAssumption, MarketTyped, TalkInv, restarts = 0, Quiet
  PROVE  Show' = Show
  BY DEF Quiet, Show

LEMMA CalmShows ==
  ASSUME StarterKitAssumption, MarketTyped, TalkInv, restarts = 0,
         \/ Quiet
         \/ \E m \in Messages : \E t : /\ Says(m, t)
                                   /\ m.verb \notin {"BID", "AWARD", "ESCROW_REQUIRED", "RELEASED"}
  PROVE  ShowSame
  <1>1. CASE Quiet
    BY <1>1, QuietShows DEF ShowSame
  <1>2. ASSUME NEW m \in Messages, NEW t, Says(m, t),
               m.verb \notin {"BID", "AWARD", "ESCROW_REQUIRED", "RELEASED"}
        PROVE  ShowSame
    <2>1. Folded(Show, m, Show')
      BY <1>2, SpokenShows
    <2>2. \A r \in Rounds : r # m.round => Show'[r] = Show[r]
      BY <2>1 DEF Folded
    <2>3. /\ Show'[m.round].bids = Show[m.round].bids /\ Show'[m.round].award = Show[m.round].award
          /\ Show'[m.round].amount = Show[m.round].amount
          /\ Show'[m.round].status = "settled" <=> Show[m.round].status = "settled"
      BY <1>2, <2>1 DEF Folded
    <2> QED BY <2>2, <2>3 DEF ShowSame
  <1> QED BY <1>1, <1>2

LEMMA ShownTyped ==
  ASSUME StarterKitAssumption, NEW v \in Views, NEW r \in Rounds
  PROVE  /\ DOMAIN v[r].bids \subseteq MarketSellers /\ \A s \in DOMAIN v[r].bids : v[r].bids[s] \in Prices
         /\ v[r].amount \in Prices \cup {0}
  <1>1. v[r] \in ShownRound
    BY DEF Views
  <1>2. v[r].bids \in Tables /\ v[r].amount \in Prices \cup {0}
    BY <1>1 DEF ShownRound, Statuses
  <1>3. PICK D \in SUBSET MarketSellers : v[r].bids \in [D -> Prices]
    BY <1>2 DEF Tables
  <1> QED BY <1>2, <1>3

LEMMA DealTyped ==
  ASSUME StarterKitAssumption, Show \in Views, NEW r \in Rounds, Deal(r)
  PROVE  Show[r].award \in MarketSellers /\ Show[r].amount \in Prices /\ DealEscrow(r) \in Escrows
  <1>1. Show[r].award \in MarketSellers /\ Show[r].amount \in Prices
    BY ShownTyped DEF Deal, Priced
  <1>2. market!boundReference(Show[r].award, r, Show[r].amount) \in market!References
    BY <1>1, StarterFacts
  <1> QED BY <1>1, <1>2, StarterFacts DEF DealEscrow, market!EscrowFor, market!arbitratedEscrowPda, market!escrowPda

SameBids == \A r \in Rounds : Show'[r].bids = Show[r].bids

LEMMA ShownBidsKept ==
  ASSUME StarterKitAssumption, MarketTyped, ShownBids,
         NEW k \in [Agents -> {0, 1}], NEW new, Moves(k, new), SameBids, round' \in {round, round + 1},
         \A m \in new[Nobody] : m \in Bids \cup Terms => Asked(m.by, m.round, m.price),
         \A s \in MarketSellers : \A m \in new[s] : m.verb = "WANT" => m.round > round,
         \A s \in MarketSellers, r \in Rounds : quoted'[s][r] \in {0, quoted[s][r]},
         \A s \in DOMAIN bids' : Asked(s, round', bids'[s])
  PROVE  ShownBids'
  <1>1. ASSUME NEW s \in MarketSellers, NEW r \in Rounds, NEW p \in Prices, Asked(s, r, p)'
        PROVE  Asked(s, r, p)
    <2>1. p # 0
      BY StarterFacts
    <2>2. quoted'[s][r] = p => Asked(s, r, p)
      BY <2>1 DEF Asked
    <2>3. round' = r /\ s \in DOMAIN bids' /\ bids'[s] = p => Asked(s, r, p)
      OBVIOUS
    <2>4. AskedBy(new, s, r, p) => Asked(s, r, p)
      BY DEF AskedBy
    <2> QED BY <1>1, <2>2, <2>3, <2>4, AskedAfter
  <1>2. ASSUME NEW s \in MarketSellers, NEW r \in Rounds, NEW n \in Nat, IsWant(s, r, n)'
        PROVE  s \notin DOMAIN Show[r].bids
    <2>1. s \in Agents /\ k[s] \in {0, 1}
      BY StarterFacts
    <2>2. n \in DOMAIN unread'[s] /\ unread'[s][n].m.verb = "WANT" /\ unread'[s][n].m.round = r
      BY <1>2 DEF IsWant
    <2>3. CASE n + k[s] \in DOMAIN unread[s]
      <3>1. unread'[s][n] = unread[s][n + k[s]] /\ n + k[s] \in Nat
        BY <2>1, <2>2, <2>3 DEF Moves
      <3>2. IsWant(s, r, n + k[s])
        BY <2>2, <2>3, <3>1 DEF IsWant
      <3> QED BY <3>1, <3>2 DEF ShownBids
    <2>4. CASE n + k[s] \notin DOMAIN unread[s]
      <3>1. unread'[s][n].m \in new[s]
        BY <2>1, <2>2, <2>4 DEF Moves
      <3>2. r > round
        BY <2>2, <3>1
      <3> QED BY <3>2 DEF ShownBids
    <2> QED BY <2>3, <2>4
  <1>3. \A r \in Rounds : r > round' => r > round
    BY StarterFacts DEF MarketTyped
  <1>4. Rounds' = Rounds /\ Prices' = Prices
    BY DEF Rounds, market!Rounds, Prices, market!Prices
  <1>5. ASSUME NEW s \in MarketSellers, NEW r \in Rounds
        PROVE  /\ \A p \in Prices : Asked(s, r, p)' => Priced(s, r, p)'
               /\ r > round' \/ (\E n \in Nat : IsWant(s, r, n)') => s \notin DOMAIN Show'[r].bids
    <2>1. \A p : Priced(s, r, p)' = Priced(s, r, p)
      BY DEF SameBids, Priced
    <2>2. \A p \in Prices : Asked(s, r, p)' => Priced(s, r, p)
      BY <1>1 DEF ShownBids
    <2>3. r > round' => s \notin DOMAIN Show[r].bids
      BY <1>3 DEF ShownBids
    <2>4. (\E n \in Nat : IsWant(s, r, n)') => s \notin DOMAIN Show[r].bids
      BY <1>2
    <2>5. Show'[r].bids = Show[r].bids
      BY DEF SameBids
    <2> QED BY <2>1, <2>2, <2>3, <2>4, <2>5
  <1> QED BY <1>4, <1>5 DEF ShownBids

\* No award is told anew, and the buyer awards nothing.
LEMMA ShownAwardKept ==
  ASSUME StarterKitAssumption, ShownAward, NEW k, NEW new, Moves(k, new),
         \A r \in Rounds : Show'[r].award = Show[r].award, round' = round, round \in Rounds \/ ~ Settling',
         \A s \in MarketSellers : \A m \in new[s] : m \notin Awards,
         Settling' => Settling /\ UNCHANGED winner
  PROVE  ShownAward'
  <1>1. Awards' = Awards /\ \A s \in MarketSellers : s \in Agents
    BY StarterFacts DEF Awards, Rounds, market!Rounds
  <1>2. ASSUME NEW s \in MarketSellers, NEW m \in Awards, Has(s, m)' PROVE Show'[m.round].award = s
    <2>1. Has(s, m) /\ m.round \in Rounds
      BY <1>1, <1>2, OldOrSent DEF Awards
    <2> QED BY <2>1 DEF ShownAward
  <1>3. Settling' => Show'[round'].award = winner'
    BY DEF ShownAward
  <1> QED BY <1>1, <1>2, <1>3 DEF ShownAward

\* What is shown grows: bids and terms stay, and the award that terms are of.
Grown == \A r \in Rounds :
  /\ Show[r].amount # 0 => Show'[r].amount = Show[r].amount /\ Show'[r].award = Show[r].award
  /\ \A s, p : Priced(s, r, p) => Priced(s, r, p)'

LEMMA SameGrown ==
  ASSUME ShowSame
  PROVE  /\ SameBids /\ Grown
         /\ \A r \in Rounds : Show'[r].award = Show[r].award /\ Show'[r].amount = Show[r].amount
  BY DEF ShowSame, SameBids, Grown, Priced

LEMMA ShownTermsKept ==
  ASSUME StarterKitAssumption, MarketTyped, ShownTerms, NEW k, NEW new, Moves(k, new), Grown,
         \/ round' = round /\ (pc' = "bids" => pc = "bids")
         \/ round' = round + 1,
         \A m \in new[Nobody] : m \in Terms => Show'[m.round].amount # 0,
         \A r \in Rounds : Show'[r].amount # 0 =>
           Show[r].amount # 0 \/ (r <= round /\ (r = round => pc # "bids") /\ Deal(r)'),
         Paying' => round \in Rounds /\ round' = round /\ Show[round].amount # 0
  PROVE  ShownTerms'
  <1>1. Terms' = Terms /\ Rounds' = Rounds /\ Nobody \in Agents
    BY StarterFacts DEF Terms, Rounds, market!Rounds, Prices, market!Prices, market!References, market!boundReference
  <1>2. ASSUME NEW m \in Terms, Has(Nobody, m)' PROVE Show'[m.round].amount # 0
    <2>1. (Has(Nobody, m) \/ m \in new[Nobody]) /\ m.round \in Rounds
      BY <1>1, <1>2, OldOrSent DEF Terms
    <2> QED BY <2>1 DEF ShownTerms, Grown
  <1>3. Paying' => Show'[round'].amount # 0
    BY DEF Grown
  <1>4. ASSUME NEW r \in Rounds, Show'[r].amount # 0
        PROVE  r <= round' /\ (r = round' => pc' # "bids") /\ Deal(r)'
    <2>1. ASSUME Show[r].amount # 0 PROVE Deal(r)'
      <3>1. Show'[r].amount = Show[r].amount /\ Show'[r].award = Show[r].award /\ Deal(r)
        BY <2>1 DEF Grown, ShownTerms
      <3> QED BY <3>1 DEF Grown, Deal
    <2>2. r <= round /\ (r = round => pc # "bids") /\ Deal(r)'
      BY <1>4, <2>1 DEF ShownTerms
    <2>3. r <= round' /\ (r = round' => pc' # "bids")
      <3>1. r \in Nat /\ round \in Nat
        BY StarterFacts DEF MarketTyped
      <3> QED BY <2>2, <3>1
    <2> QED BY <2>2, <2>3
  <1> QED BY <1>1, <1>2, <1>3, <1>4 DEF ShownTerms

LEMMA ShownPaidKept ==
  ASSUME StarterKitAssumption, MarketInv, MarketTyped', OneRelease', Show \in Views, ShownTerms, ShownPaid, Grown,
         \A r \in Rounds : Show'[r].status = "settled" =>
           Show[r].status = "settled" \/ (Show'[r].amount # 0 /\ releases'[DealEscrow(r)'] = 1),
         \A e \in Escrows : releases[e] > 0 => releases'[e] > 0
  PROVE  ShownPaid'
  <1>1. Rounds' = Rounds /\ Escrows' = Escrows
    BY DEF Rounds, market!Rounds, Escrows, market!Escrows, market!References, market!Prices
  <1>2. ASSUME NEW r \in Rounds, Show[r].status = "settled"
        PROVE  Show'[r].amount # 0 /\ releases'[DealEscrow(r)'] = 1
    <2>1. Show[r].amount # 0 /\ releases[DealEscrow(r)] = 1
      BY <1>2 DEF ShownPaid
    <2>2. DealEscrow(r) \in Escrows
      BY <2>1, DealTyped DEF ShownTerms
    <2>3. releases'[DealEscrow(r)] = 1
      BY <1>1, <2>1, <2>2 DEF OneRelease
    <2>4. Show'[r].amount = Show[r].amount /\ Show'[r].award = Show[r].award
      BY <2>1 DEF Grown
    <2>5. DealEscrow(r)' = DealEscrow(r)
      BY <2>4 DEF DealEscrow, market!EscrowFor, market!arbitratedEscrowPda, market!escrowPda, market!boundReference
    <2> QED BY <2>1, <2>3, <2>4, <2>5
  <1> QED BY <1>1, <1>2 DEF ShownPaid

\* A step that bids, asks, awards and settles nothing.
LEMMA CalmFed ==
  ASSUME StarterKitAssumption, MarketInv, MarketInv', LifeInv', FeedInv, UNCHANGED <<restarts, round>>,
         NEW k \in [Agents -> {0, 1}], NEW new, Moves(k, new),
         \A a \in Agents : \A m \in new[a] : m \in Payments \cup Deliveries,
         \/ Quiet
         \/ \E m \in Messages : \E t : /\ Says(m, t)
                                      /\ m.verb \notin {"BID", "AWARD", "ESCROW_REQUIRED", "RELEASED"},
         pc' = "bids" => pc = "bids",
         Settling' => Settling /\ UNCHANGED winner,
         \A s \in MarketSellers, r \in Rounds : quoted'[s][r] \in {0, quoted[s][r]},
         \A s \in DOMAIN bids' : Asked(s, round, bids'[s]),
         restarts = 0 /\ Paying' => Show[round].amount # 0,
         \A e \in Escrows : releases[e] > 0 => releases'[e] > 0
  PROVE  FeedInv'
  <1>1. MarketTyped /\ MarketTyped' /\ TalkInv /\ Nobody \in Agents /\ \A s \in MarketSellers : s \in Agents
    BY StarterFacts DEF MarketInv, FeedInv
  <1>2. TalkInv'
    BY <1>1, TalkKept
  <1>3. ASSUME restarts = 0 PROVE ShownInv'
    <2>1. ShownInv /\ OneRelease'
      BY <1>3 DEF FeedInv, LifeInv, FirstLife, Settled
    <2>2. ShowSame /\ Show \in Views
      BY <1>1, <1>3, CalmShows, OneThread
    <2>3. \A m \in Payments \cup Deliveries : m.verb # "WANT" /\ m \notin Bids \cup Terms /\ m \notin Awards
      BY DEF Payments, Deliveries, Bids, Terms, Awards
    <2>4. round \in Rounds \/ ~ Settling
      BY <1>1 DEF MarketTyped, Settling
    <2>5. Paying' => round \in Rounds
      BY <1>1, <2>4 DEF Paying, Settling
    <2>6. ShownBids'
      <3>1. \A m \in new[Nobody] : m \in Bids \cup Terms => Asked(m.by, m.round, m.price)
        BY <1>1, <2>3
      <3>2. \A s \in MarketSellers : \A m \in new[s] : m.verb = "WANT" => m.round > round
        BY <1>1, <2>3
      <3> QED BY <1>1, <2>1, <2>2, <3>1, <3>2, SameGrown, ShownBidsKept DEF ShownInv
    <2>7. ShownAward'
      BY <1>1, <2>1, <2>2, <2>3, <2>4, ShownAwardKept DEF ShownInv, ShowSame
    <2>8. Grown
      BY <2>2, SameGrown
    <2>9. ShownTerms'
      BY <1>1, <1>3, <2>1, <2>2, <2>3, <2>5, <2>8, SameGrown, ShownTermsKept DEF ShownInv
    <2>10. ShownPaid'
      BY <1>1, <2>1, <2>2, <2>8, ShownPaidKept DEF ShownInv, ShowSame
    <2> QED BY <2>6, <2>7, <2>9, <2>10 DEF ShownInv
  <1> QED BY <1>2, <1>3 DEF FeedInv

\* The buyer reads or gives up, and says nothing.
LEMMA ListenFed ==
  ASSUME StarterKitAssumption, MarketInv, LifeInv, MarketInv', LifeInv', FeedInv,
         market!CollectBid \/ market!ReceiveTerms \/ market!AwaitDelivery \/ market!NextRound
  PROVE  FeedInv'
  <1>. DEFINE m == market!Heard(Nobody)
  <1>1. /\ UNCHANGED <<threads, round, quoted, releases, restarts>>
        /\ \/ UNCHANGED unread
           \/ unread[Nobody] # <<>> /\ unread' = [unread EXCEPT ![Nobody] = Tail(@)]
    BY DEF market!CollectBid, market!ReceiveTerms, market!AwaitDelivery, market!NextRound,
       market!NothingPaid, market!OtherThanBuyer, market!sellerVars, market!Discard, market!Waiting
  <1>2. MarketTyped /\ Nobody \in Agents
    BY StarterFacts DEF MarketInv
  <1>3. Quiet
    BY <1>1, <1>2, DiscardQuiet, LostQuiet
  <1>4. PICK k \in [Agents -> {0, 1}] : Moves(k, Sent({}, 0))
    BY <1>1, <1>2, DiscardMoves, LostMoves, ReadTyped
  <1>5. \A a \in Agents : Sent({}, 0)[a] = {}
    BY DEF Sent
  <1>6. market!Waiting(Nobody) => m \in Messages /\ Has(Nobody, m)
    BY <1>2, HeadFacts DEF market!Waiting
  <1>7. \A s \in DOMAIN bids : Asked(s, round, bids[s])
    BY <1>2, BidsAsked
  <1>8. /\ pc' = "bids" => pc = "bids"
        /\ Settling' => Settling /\ UNCHANGED winner
        /\ \A s \in DOMAIN bids' : Asked(s, round, bids'[s])
        /\ Paying' => Paying \/ \E x \in Terms : Has(Nobody, x) /\ x.round = round
    <2>1. CASE market!CollectBid
      <3>1. /\ pc = "bids" /\ pc' = "bids" /\ market!Waiting(Nobody) /\ UNCHANGED winner
            /\ bids' = IF m.verb = "BID" /\ m.round = round THEN market!selectBids(m) ELSE bids
        BY <2>1 DEF market!CollectBid
      <3>2. ASSUME NEW s \in DOMAIN bids' PROVE Asked(s, round, bids'[s])
        <4>1. CASE m.verb = "BID" /\ m.round = round /\ s = m.by
          <5>1. bids'[s] = m.price /\ m \in Bids
            BY <1>6, <3>1, <4>1, MessageKinds DEF market!selectBids
          <5> QED BY <1>6, <3>1, <4>1, <5>1 DEF Asked
        <4>2. CASE ~ (m.verb = "BID" /\ m.round = round /\ s = m.by)
          <5>1. s \in DOMAIN bids /\ bids'[s] = bids[s]
            BY <3>1, <3>2, <4>2 DEF market!selectBids
          <5> QED BY <1>7, <5>1
        <4> QED BY <4>1, <4>2
      <3> QED BY <3>1, <3>2 DEF Settling, Paying
    <2>2. CASE market!AwaitDelivery
      <3>1. /\ pc = "delivery" /\ pc' \in {"release", "delivery"} /\ UNCHANGED <<winner, bids>>
        BY <2>2 DEF market!AwaitDelivery
      <3> QED BY <1>7, <3>1 DEF Settling, Paying
    <2>3. CASE market!EndRound
      BY <2>3, RoundEnds
    <2>4. CASE market!ReceiveTerms /\ ~ market!EndRound
      <3>1. /\ pc = "terms" /\ UNCHANGED <<winner, bids>> /\ market!Waiting(Nobody)
            /\ \/ UNCHANGED pc
               \/ pc' = "deposit" /\ m.verb = "ESCROW_REQUIRED" /\ m.round = round
        BY <2>4 DEF market!ReceiveTerms
      <3>2. m.verb = "ESCROW_REQUIRED" => m \in Terms /\ Has(Nobody, m)
        BY <1>6, <3>1, MessageKinds
      <3> QED BY <1>7, <3>1, <3>2 DEF Settling, Paying
    <2> QED BY <2>1, <2>2, <2>3, <2>4 DEF market!NextRound
  <1>. HIDE DEF m
  <1>9. restarts = 0 /\ Paying' => Show[round].amount # 0
    BY <1>8 DEF FeedInv, ShownInv, ShownTerms
  <1>10. \A s \in MarketSellers, r \in Rounds : quoted'[s][r] \in {0, quoted[s][r]}
    BY <1>1
  <1> QED BY <1>1, <1>3, <1>4, <1>5, <1>8, <1>9, <1>10, CalmFed

LEMMA AnnounceSays ==
  ASSUME StarterKitAssumption, MarketTyped, LifeInv, TalkInv, Paying,
         NEW v \in {"DEPOSITED", "RELEASED", "ARBITER_RELEASED"}, market!Announce(v, winner)
  PROVE  \E m \in Payments : /\ Says(m, Len(threads)) /\ Moves(Read({}), Sent({winner}, m))
                             /\ m.verb = v /\ m.round = round /\ m.escrow = TermsEscrow
  <1>. DEFINE m == [verb |-> v, round |-> round, escrow |-> TermsEscrow]
  <1>1. m \in Payments /\ m \in Messages
    BY TermsFacts, MessageKinds DEF Payments
  <1>2. market!Send(m, {winner})
    BY DEF market!Announce, TermsEscrow
  <1>3. m.verb = v /\ m.round = round /\ m.escrow = TermsEscrow
    OBVIOUS
  <1>. HIDE DEF m
  <1>4. Says(m, Len(threads)) /\ Moves(Read({}), Sent({winner}, m))
    BY <1>1, <1>2, SendSays, SendMoves
  <1> QED BY <1>1, <1>3, <1>4

LEMMA DepositFed ==
  ASSUME StarterKitAssumption, MarketInv, LifeInv, MarketInv', LifeInv', FeedInv, market!Deposit
  PROVE  FeedInv'
  <1>1. /\ pc = "deposit" /\ UNCHANGED <<restarts, round, quoted, releases>>
        /\ \/ market!Announce("DEPOSITED", winner) /\ pc' = "delivery" /\ UNCHANGED <<bids, winner, terms>>
           \/ UNCHANGED <<unread, threads>> /\ market!EndRound
    BY DEF market!Deposit, market!OtherThanBuyer, market!sellerVars
  <1>2. MarketTyped /\ TalkInv /\ Paying /\ Nobody \in Agents
    BY <1>1, StarterFacts DEF MarketInv, FeedInv, Paying
  <1>3. \A s \in DOMAIN bids : Asked(s, round, bids[s])
    BY <1>2, BidsAsked
  <1>4. /\ pc' = "bids" => pc = "bids"
        /\ Settling' => Settling /\ UNCHANGED winner
        /\ \A s \in DOMAIN bids' : Asked(s, round, bids'[s])
        /\ restarts = 0 /\ Paying' => Show[round].amount # 0
    <2>1. restarts = 0 => Show[round].amount # 0
      BY <1>2 DEF FeedInv, ShownInv, ShownTerms
    <2> QED BY <1>1, <1>2, <1>3, <2>1, RoundEnds DEF Settling, Paying
  <1>5. \A s \in MarketSellers, r \in Rounds : quoted'[s][r] \in {0, quoted[s][r]}
    BY <1>1
  <1>6. CASE market!Announce("DEPOSITED", winner)
    <2>1. PICK m \in Payments : /\ Says(m, Len(threads)) /\ Moves(Read({}), Sent({winner}, m))
                                /\ m.verb = "DEPOSITED"
      BY <1>2, <1>6, AnnounceSays
    <2>2. m \in Messages /\ \A a \in Agents : \A x \in Sent({winner}, m)[a] : x \in Payments
      BY MessageKinds DEF Sent
    <2> QED BY <1>1, <1>4, <1>5, <2>1, <2>2, ReadTyped, CalmFed
  <1>7. CASE UNCHANGED <<unread, threads>>
    <2>1. Quiet
      BY <1>2, <1>7, LostQuiet
    <2>2. Moves(Read({}), Sent({}, 0)) /\ \A a \in Agents : Sent({}, 0)[a] = {}
      BY <1>2, <1>7, LostMoves DEF Sent
    <2> QED BY <1>1, <1>4, <1>5, <2>1, <2>2, ReadTyped, CalmFed
  <1> QED BY <1>1, <1>6, <1>7

\* A seller that reads, works, delivers or starts again.
LEMMA SellerFed ==
  ASSUME StarterKitAssumption, MarketInv, LifeInv, MarketInv', LifeInv', FeedInv,
         NEW s \in MarketSellers,
         UNCHANGED <<pc, round, bids, winner, terms, releases, restarts>>,
         \A r \in Rounds, a \in MarketSellers : quoted'[a][r] \in {0, quoted[a][r]},
         \/ UNCHANGED threads /\ (unread' = unread \/ unread' = [unread EXCEPT ![s] = <<>>])
         \/ unread[s] # <<>> /\ market!Discard(s)
         \/ unread[s] # <<>> /\ \E m \in Deliveries : market!Reply(s, m)
  PROVE  FeedInv'
  <1>1. MarketTyped /\ TalkInv /\ s \in Agents /\ Nobody \in Agents
    BY StarterFacts DEF MarketInv, FeedInv
  <1>2. \A a \in DOMAIN bids : Asked(a, round, bids[a])
    BY <1>1, BidsAsked
  <1>3. /\ Settling' => Settling /\ UNCHANGED winner
        /\ restarts = 0 /\ Paying' => Show[round].amount # 0
    BY DEF Settling, Paying, FeedInv, ShownInv, ShownTerms
  <1>4. CASE \E m \in Deliveries : unread[s] # <<>> /\ market!Reply(s, m)
    <2>1. PICK m \in Deliveries : unread[s] # <<>> /\ market!Reply(s, m)
      BY <1>4
    <2>2. m \in Messages /\ m.verb = "DELIVERED"
      BY MessageKinds
    <2>3. Moves(Read({s}), Sent({Nobody}, m))
      BY <1>1, <2>1, <2>2, ReplyMoves
    <2>4. PICK t : Says(m, t)
      BY <1>1, <2>1, <2>2, ReplySays
    <2>5. \A a \in Agents : \A x \in Sent({Nobody}, m)[a] : x \in Deliveries
      BY DEF Sent
    <2> QED BY <1>2, <1>3, <2>2, <2>3, <2>4, <2>5, ReadTyped, CalmFed
  <1>5. CASE \/ UNCHANGED threads /\ (unread' = unread \/ unread' = [unread EXCEPT ![s] = <<>>])
             \/ unread[s] # <<>> /\ market!Discard(s)
    <2>1. Quiet
      BY <1>1, <1>5, DiscardQuiet, LostQuiet DEF market!Discard
    <2>2. PICK k \in [Agents -> {0, 1}] : Moves(k, Sent({}, 0))
      BY <1>1, <1>5, DiscardMoves, LostMoves, ReadTyped DEF market!Discard
    <2>3. \A a \in Agents : Sent({}, 0)[a] = {}
      BY DEF Sent
    <2> QED BY <1>2, <1>3, <2>1, <2>2, <2>3, CalmFed
  <1> QED BY <1>4, <1>5

LEMMA QuietSellersFed ==
  ASSUME StarterKitAssumption, MarketInv, LifeInv, MarketInv', LifeInv', FeedInv, NEW s \in MarketSellers,
         \/ market!RefuseDeposit(s) \/ market!IgnoreMention(s) \/ market!Work(s) \/ market!Delivered(s)
         \/ market!SellerRestarts(s)
         \/ (market!Bid(s) \/ market!Quote(s)) /\ market!Discard(s) /\ UNCHANGED quoted
  PROVE  FeedInv'
  <1>1. MarketTyped
    BY DEF MarketInv
  <1>2. ASSUME market!SellerRestarts(s) PROVE FeedInv'
    <2>1. /\ quoted' = [quoted EXCEPT ![s] = [r \in Rounds |-> 0]] /\ UNCHANGED threads
          /\ \/ unread' = [unread EXCEPT ![s] = <<>>] \/ unread' = unread
             \/ job[s] # NoJob /\ unread' = [unread EXCEPT ![s] = Tail(@)]
          /\ UNCHANGED <<pc, round, bids, winner, terms, releases, restarts>>
      BY <1>2 DEF market!SellerRestarts, market!buyerVars, market!history, NoJob, Rounds
    <2>2. \A r \in Rounds, a \in MarketSellers : quoted'[a][r] \in {0, quoted[a][r]}
      BY <1>1, <2>1 DEF MarketTyped
    <2>3. job[s] # NoJob => unread[s] # <<>>
      BY <1>1 DEF MarketTyped
    <2> QED BY <2>1, <2>2, <2>3, SellerFed DEF market!Discard
  <1>3. ASSUME market!Delivered(s) PROVE FeedInv'
    <2>1. job[s] # NoJob /\ unread[s] # <<>> /\ job[s].round \in Rounds
      BY <1>1, <1>3 DEF market!Delivered, NoJob, MarketTyped
    <2>2. PICK m : m = [verb |-> "DELIVERED", round |-> job[s].round]
      OBVIOUS
    <2>3. m \in Deliveries
      BY <2>1, <2>2 DEF Deliveries
    <2>4. (market!Reply(s, m) \/ market!Discard(s)) /\ UNCHANGED quoted
      BY <1>3, <2>2 DEF market!Delivered, market!ReplyError
    <2>5. \A r \in Rounds, a \in MarketSellers : quoted'[a][r] \in {0, quoted[a][r]}
      BY <2>4
    <2>6. UNCHANGED <<pc, round, bids, winner, terms, releases, restarts>>
      BY <1>3 DEF market!Delivered, market!OtherThanSeller, market!buyerVars
    <2> QED BY <2>1, <2>3, <2>4, <2>5, <2>6, SellerFed
  <1>4. ASSUME market!Work(s) PROVE FeedInv'
    <2>1. UNCHANGED <<quoted, unread, threads, pc, round, bids, winner, terms, releases, restarts>>
      BY <1>4 DEF market!Work, market!OtherThanSeller, market!buyerVars
    <2>2. \A r \in Rounds, a \in MarketSellers : quoted'[a][r] \in {0, quoted[a][r]}
      BY <2>1
    <2> QED BY <2>1, <2>2, SellerFed
  <1>5. ASSUME \/ market!RefuseDeposit(s) \/ market!IgnoreMention(s)
               \/ (market!Bid(s) \/ market!Quote(s)) /\ market!Discard(s) /\ UNCHANGED quoted
        PROVE  FeedInv'
    <2>1. /\ unread[s] # <<>> /\ market!Discard(s)
          /\ UNCHANGED <<quoted, pc, round, bids, winner, terms, releases, restarts>>
      BY <1>5 DEF market!RefuseDeposit, market!IgnoreMention, market!Bid, market!Quote,
        market!OtherThanSeller, market!buyerVars, market!sellerVars, market!ReplyError,
        market!Hears, market!Waiting
    <2>2. \A r \in Rounds, a \in MarketSellers : quoted'[a][r] \in {0, quoted[a][r]}
      BY <2>1
    <2> QED BY <2>1, <2>2, SellerFed
  <1> QED BY <1>2, <1>3, <1>4, <1>5

-----------------------------------------------------------------------------
\* The steps that show something new.
LEMMA WantFed ==
  ASSUME StarterKitAssumption, MarketInv, LifeInv, MarketInv', LifeInv', FeedInv, market!Want
  PROVE  FeedInv'
  <1>. DEFINE m == [verb |-> "WANT", round |-> round']
  <1>1. /\ pc = "start" /\ pc' = "bids" /\ round < MaxRound /\ round' = round + 1
        /\ market!Send(m, MarketSellers)
        /\ UNCHANGED <<bids, winner, terms, quoted, releases, restarts>>
    BY DEF market!Want, market!NothingPaid, market!OtherThanBuyer, market!sellerVars
  <1>2. /\ MarketTyped /\ MarketTyped' /\ TalkInv /\ Nobody \in Agents /\ Nobody \notin MarketSellers
        /\ \A s \in MarketSellers : s \in Agents
    BY StarterFacts DEF MarketInv, FeedInv
  <1>3. round' \in Rounds /\ round \in Nat /\ DOMAIN bids' = {}
    BY <1>1, <1>2, StarterFacts DEF MarketTyped
  <1>4. m \in Wants /\ m \in Messages /\ m.verb = "WANT" /\ m.round > round /\ m.round = round'
    <2>1. m \in Wants /\ m.verb = "WANT" /\ m.round = round'
      BY <1>3 DEF Wants
    <2> QED BY <1>1, <1>3, <2>1, MessageKinds
  <1>. HIDE DEF m
  <1>5. Moves(Read({}), Sent(MarketSellers, m)) /\ Says(m, Len(threads))
    BY <1>1, <1>2, <1>4, SendMoves, SendSays
  <1>6. Sent(MarketSellers, m)[Nobody] = {} /\ \A s \in MarketSellers : Sent(MarketSellers, m)[s] = {m}
    BY <1>2 DEF Sent
  <1>7. TalkInv'
    BY <1>1, <1>2, <1>4, <1>5, TalkKept
  <1>8. ASSUME restarts = 0 PROVE ShownInv'
    <2>1. ShownInv /\ OneRelease'
      BY <1>1, <1>8 DEF FeedInv, LifeInv, FirstLife, Settled
    <2>2. ShowSame /\ Show \in Views
      BY <1>2, <1>4, <1>5, <1>8, CalmShows, OneThread
    <2>3. ~ Settling' /\ ~ Paying'
      BY <1>1 DEF Settling, Paying
    <2>4. ShownBids'
      BY <1>1, <1>2, <1>3, <1>4, <1>5, <1>6, <2>1, <2>2, ReadTyped, SameGrown, ShownBidsKept DEF ShownInv
    <2>5. ShownAward'
      <3>1. Awards' = Awards
        BY DEF Awards, Rounds, market!Rounds
      <3>2. m \notin Awards
        BY <1>4 DEF Awards
      <3>3. ASSUME NEW s \in MarketSellers, NEW x \in Awards, Has(s, x)' PROVE Show'[x.round].award = s
        <4>1. Has(s, x) /\ x.round \in Rounds
          BY <1>2, <1>5, <1>6, <3>2, <3>3, OldOrSent DEF Awards
        <4> QED BY <2>1, <2>2, <4>1 DEF ShownInv, ShownAward, ShowSame
      <3> QED BY <2>3, <3>1, <3>3 DEF ShownAward
    <2>6. Grown
      BY <2>2, SameGrown
    <2>7. ShownTerms'
      BY <1>1, <1>2, <1>5, <1>6, <2>1, <2>2, <2>3, <2>6, SameGrown, ShownTermsKept DEF ShownInv
    <2>8. ShownPaid'
      BY <1>1, <1>2, <2>1, <2>2, <2>6, ShownPaidKept DEF ShownInv, ShowSame
    <2> QED BY <2>4, <2>5, <2>7, <2>8 DEF ShownInv
  <1> QED BY <1>1, <1>7, <1>8 DEF FeedInv

LEMMA AwardWinnerFed ==
  ASSUME StarterKitAssumption, MarketInv, LifeInv, MarketInv', LifeInv', FeedInv, market!AwardWinner
  PROVE  FeedInv'
  <1>1. PICK s \in DOMAIN bids :
          winner' = s /\ market!Send([verb |-> "AWARD", round |-> round, to |-> s], {s})
    BY DEF market!AwardWinner
  <1>. DEFINE m == [verb |-> "AWARD", round |-> round, to |-> s]
  <1>2. /\ pc = "bids" /\ pc' = "terms" /\ UNCHANGED <<round, bids, terms, quoted, releases, restarts>>
    BY DEF market!AwardWinner, market!NothingPaid, market!OtherThanBuyer, market!sellerVars
  <1>3. MarketTyped /\ MarketTyped' /\ TalkInv /\ round \in Rounds /\ s \in MarketSellers /\ Nobody \in Agents
        /\ s # Nobody /\ \A a \in MarketSellers : a \in Agents
    BY <1>2, StarterFacts DEF MarketInv, MarketTyped, FeedInv
  <1>4. m \in Awards /\ m \in Messages /\ m.verb = "AWARD" /\ m.round = round /\ m.to = s
    BY <1>3, MessageKinds DEF Awards
  <1>5. market!Send(m, {s})
    BY <1>1
  <1>. HIDE DEF m
  <1>6. Moves(Read({}), Sent({s}, m)) /\ Says(m, Len(threads))
    BY <1>3, <1>4, <1>5, SendMoves, SendSays
  <1>7. Sent({s}, m)[Nobody] = {} /\ \A a \in MarketSellers : \A x \in Sent({s}, m)[a] : a = s /\ x = m
    BY <1>3 DEF Sent
  <1>8. TalkInv'
    BY <1>2, <1>3, <1>4, <1>6, TalkKept
  <1>9. ASSUME restarts = 0 PROVE ShownInv'
    <2>1. ShownInv /\ OneRelease' /\ OneAward
      BY <1>2, <1>9 DEF FeedInv, LifeInv, FirstLife, Settled
    <2>2. Folded(Show, m, Show') /\ Show \in Views
      BY <1>3, <1>4, <1>6, <1>9, SpokenShows
    <2>3. /\ \A r \in Rounds : r # round => Show'[r] = Show[r]
          /\ Show'[round].bids = Show[round].bids /\ Show'[round].award = s
          /\ Show'[round].amount = Show[round].amount
          /\ Show'[round].status = "settled" <=> Show[round].status = "settled"
      BY <1>4, <2>2 DEF Folded
    <2>4. Show[round].amount = 0
      BY <1>2, <1>3, <2>1 DEF ShownInv, ShownTerms
    <2>5. Grown
      <3>1. \A r \in Rounds : Show'[r].bids = Show[r].bids
        BY <2>3
      <3>2. \A r \in Rounds : \A a, p : Priced(a, r, p) => Priced(a, r, p)'
        BY <3>1 DEF Priced
      <3> QED BY <2>3, <2>4, <3>2 DEF Grown
    <2>6. ShownBids'
      <3>1. SameBids
        BY <2>3 DEF SameBids
      <3>2. \A a \in MarketSellers : \A x \in Sent({s}, m)[a] : x.verb # "WANT"
        BY <1>4, <1>7
      <3> QED BY <1>2, <1>3, <1>6, <1>7, <2>1, <3>1, <3>2, ReadTyped, BidsAsked, ShownBidsKept DEF ShownInv
    <2>7. ShownAward'
      <3>1. Awards' = Awards
        BY DEF Awards, Rounds, market!Rounds
      <3>2. ASSUME NEW a \in MarketSellers, NEW x \in Awards, Has(a, x)' PROVE Show'[x.round].award = a
        <4>1. CASE x \in Sent({s}, m)[a]
          BY <1>4, <1>7, <2>3, <4>1
        <4>2. CASE Has(a, x)
          <5>1. x.round # round
            BY <1>2, <2>1, <4>2 DEF OneAward, TheWinner
          <5>2. x.round \in Rounds
            BY DEF Awards
          <5> QED BY <2>1, <2>3, <4>2, <5>1, <5>2 DEF ShownInv, ShownAward
        <4> QED BY <1>3, <1>6, <3>2, <4>1, <4>2, OldOrSent
      <3>3. Show'[round'].award = winner'
        BY <1>1, <1>2, <2>3
      <3> QED BY <3>1, <3>2, <3>3 DEF ShownAward
    <2>8. ShownTerms'
      <3>1. ~ Paying'
        BY <1>2 DEF Paying
      <3> QED BY <1>2, <1>3, <1>6, <1>7, <2>1, <2>3, <2>5, <3>1, ShownTermsKept DEF ShownInv
    <2>9. ShownPaid'
      <3>1. \A r \in Rounds : Show'[r].status = "settled" => Show[r].status = "settled"
        BY <2>3
      <3> QED BY <1>2, <1>3, <2>1, <2>2, <2>5, <3>1, ShownPaidKept DEF ShownInv
    <2> QED BY <2>6, <2>7, <2>8, <2>9 DEF ShownInv
  <1> QED BY <1>2, <1>8, <1>9 DEF FeedInv

\* A bid is shown beside those of the round, for a seller without one there.
LEMMA BidFed ==
  ASSUME StarterKitAssumption, MarketInv, LifeInv, MarketInv', LifeInv', FeedInv,
         NEW s \in MarketSellers, market!Bid(s)
  PROVE  FeedInv'
  <1>. DEFINE h == market!Heard(s)
  <1>1. /\ market!Hears(s, "WANT")
        /\ UNCHANGED <<pc, round, bids, winner, terms, releases, restarts>>
    BY DEF market!Bid, market!OtherThanSeller, market!buyerVars
  <1>2. /\ MarketTyped /\ MarketTyped' /\ TalkInv /\ Nobody \in Agents /\ Nobody # s
        /\ \A a \in MarketSellers : a \in Agents /\ a # Nobody
    BY StarterFacts DEF MarketInv, FeedInv
  <1>3. unread[s] # <<>> /\ h = unread[s][1].m /\ 1 \in DOMAIN unread[s] /\ h.verb = "WANT" /\ h \in Wants
    BY <1>1, <1>2, HearsFacts, MessageKinds
  <1>4. PICK r \in Rounds : r = h.round
    BY <1>3 DEF Wants
  <1>5. IsWant(s, r, 1)
    BY <1>3, <1>4 DEF IsWant
  <1>. HIDE DEF h
  <1>6. CASE market!Discard(s) /\ UNCHANGED quoted
    BY <1>6, QuietSellersFed
  <1>7. ASSUME NEW p \in market!decideBid(s), quoted' = [quoted EXCEPT ![s][r] = p],
               market!Reply(s, [verb |-> "BID", round |-> r, by |-> s, price |-> p])
        PROVE  FeedInv'
    <2>. DEFINE m == [verb |-> "BID", round |-> r, by |-> s, price |-> p]
    <2>1. p \in Prices
      BY DEF market!decideBid, Prices
    <2>2. m \in Bids /\ m \in Messages /\ m \notin Terms /\ m.by = s /\ m.round = r /\ m.price = p /\ m.verb = "BID"
      <3>1. m \in Bids /\ m.verb = "BID"
        BY <2>1 DEF Bids
      <3> QED BY <3>1, MessageKinds
    <2>3. market!Reply(s, m)
      BY <1>7
    <2>. HIDE DEF m
    <2>4. Moves(Read({s}), Sent({Nobody}, m)) /\ \E t : Says(m, t)
      BY <1>2, <1>3, <2>2, <2>3, ReplyMoves, ReplySays
    <2>5. Sent({Nobody}, m)[Nobody] = {m} /\ \A a \in MarketSellers : Sent({Nobody}, m)[a] = {}
      BY <1>2 DEF Sent
    <2>6. TalkInv'
      BY <1>1, <1>2, <2>2, <2>4, TalkKept
    <2>7. ASSUME restarts = 0 PROVE ShownInv'
      <3>1. ShownInv /\ OneRelease' /\ WantedOnce /\ WantedOnce'
        BY <1>1, <2>7 DEF FeedInv, LifeInv, FirstLife, Settled, Prompted
      <3>2. Folded(Show, m, Show') /\ Show \in Views
        BY <1>2, <2>2, <2>4, <2>7, SpokenShows
      <3>3. s \notin DOMAIN Show[r].bids
        BY <1>5, <3>1 DEF ShownInv, ShownBids
      <3>4. /\ \A i \in Rounds : i # r => Show'[i] = Show[i]
            /\ Show'[r].bids = [a \in DOMAIN Show[r].bids \cup {s} |-> IF a = s THEN p ELSE Show[r].bids[a]]
            /\ Show'[r].award = Show[r].award /\ Show'[r].amount = Show[r].amount
            /\ Show'[r].status = "settled" <=> Show[r].status = "settled"
        <4>1. Show[r] \in ShownRound
          BY <3>2 DEF Views
        <4>2. PICK b : b = [a \in DOMAIN Show[r].bids \cup {s} |-> IF a = s THEN p ELSE Show[r].bids[a]]
          OBVIOUS
        <4>3. market!Feed!foldBid(Show[r], m) = [Show[r] EXCEPT !.bids = b]
          BY <2>2, <3>3, <4>2 DEF market!Feed!foldBid
        <4>4. market!Feed!foldBid(Show[r], m).bids = b
          BY <4>1, <4>3 DEF ShownRound, Statuses
        <4> QED BY <2>2, <3>2, <4>2, <4>4 DEF Folded
      <3>5. Priced(s, r, p)' /\ \A i \in Rounds : \A a, q : Priced(a, i, q) => Priced(a, i, q)'
        BY <3>3, <3>4 DEF Priced
      <3>6. Grown
        BY <3>4, <3>5 DEF Grown
      <3>7. ShownBids'
        <4>1. ASSUME NEW a \in MarketSellers, NEW i \in Rounds, NEW q \in Prices, Asked(a, i, q)'
              PROVE  Priced(a, i, q)'
          <5>1. AskedBy(Sent({Nobody}, m), a, i, q) => a = s /\ i = r /\ q = p
            BY <2>2, <2>5 DEF AskedBy
          <5>2. AskedBy(Sent({Nobody}, m), s, r, p)
            BY <2>2, <2>5 DEF AskedBy
          <5>3. quoted'[a][i] = q => Asked(a, i, q) \/ (a = s /\ i = r /\ q = p)
            BY <1>2, <1>7 DEF MarketTyped, Asked
          <5>4. round' = i /\ a \in DOMAIN bids' /\ bids'[a] = q => Asked(a, i, q)
            BY <1>1 DEF Asked
          <5>5. Asked(a, i, q) \/ (a = s /\ i = r /\ q = p)
            BY <2>4, <4>1, <5>1, <5>2, <5>3, <5>4, AskedAfter
          <5>6. Asked(a, i, q) => Priced(a, i, q)
            BY <3>1 DEF ShownInv, ShownBids
          <5> QED BY <3>5, <5>5, <5>6
        <4>2. Asked(s, r, p)'
          <5>1. quoted'[s][r] = p
            BY <1>2, <1>7 DEF MarketTyped
          <5> QED BY <5>1 DEF Asked
        <4>3. Rounds' = Rounds /\ Prices' = Prices
          BY DEF Rounds, market!Rounds, Prices, market!Prices
        <4>4. ASSUME NEW a \in MarketSellers, NEW i \in Rounds, i > round \/ \E n \in Nat : IsWant(a, i, n)'
              PROVE  a \notin DOMAIN Show[i].bids /\ ~ (a = s /\ i = r)
          <5>1. CASE i > round
            <6>1. r <= round
              BY <1>5, <3>1 DEF WantedOnce
            <6>2. r \in Nat /\ round \in Nat /\ i \in Nat
              BY <1>2, StarterFacts DEF MarketTyped
            <6> QED BY <3>1, <5>1, <6>1, <6>2 DEF ShownInv, ShownBids
          <5>2. ASSUME NEW n \in Nat, IsWant(a, i, n)' PROVE a \notin DOMAIN Show[i].bids /\ ~ (a = s /\ i = r)
            <6>1. n + Read({s})[a] \in Nat /\ IsWant(a, i, n + Read({s})[a])
              BY <2>4, <2>5, <5>2, ReadTyped, WantBefore
            <6>2. ~ (a = s /\ i = r)
              BY <2>1, <4>2, <4>3, <5>2, <3>1 DEF WantedOnce
            <6> QED BY <3>1, <6>1, <6>2 DEF ShownInv, ShownBids
          <5> QED BY <4>4, <5>1, <5>2
        <4>5. ASSUME NEW a \in MarketSellers, NEW i \in Rounds, i > round' \/ \E n \in Nat : IsWant(a, i, n)'
              PROVE  a \notin DOMAIN Show'[i].bids
          <5>1. a \notin DOMAIN Show[i].bids /\ ~ (a = s /\ i = r)
            BY <1>1, <4>4, <4>5
          <5> QED BY <3>4, <5>1
        <4> QED BY <4>1, <4>3, <4>5 DEF ShownBids
      <3>8. \A i \in Rounds : /\ Show'[i].award = Show[i].award /\ Show'[i].amount = Show[i].amount
                              /\ Show'[i].status = "settled" <=> Show[i].status = "settled"
        BY <3>4
      <3>9. Settling' = Settling /\ Paying' = Paying /\ (Settling => round \in Rounds) /\ (Paying => Settling)
        BY <1>1, <1>2 DEF Settling, Paying, MarketTyped
      <3>10. ShownAward'
        BY <1>1, <1>2, <2>4, <2>5, <3>1, <3>8, <3>9, ShownAwardKept DEF ShownInv
      <3>11. ShownTerms'
        <4>1. Paying => Show[round].amount # 0
          BY <3>1 DEF ShownInv, ShownTerms
        <4> QED BY <1>1, <1>2, <2>2, <2>4, <2>5, <3>1, <3>6, <3>8, <3>9, <4>1, ShownTermsKept DEF ShownInv
      <3>12. ShownPaid'
        BY <1>1, <1>2, <3>1, <3>2, <3>6, <3>8, ShownPaidKept DEF ShownInv
      <3> QED BY <3>7, <3>10, <3>11, <3>12 DEF ShownInv
    <2> QED BY <1>1, <2>6, <2>7 DEF FeedInv
  <1> QED BY <1>4, <1>6, <1>7 DEF market!Bid, h

\* The terms are shown on the award of the seller that asks for them, at the
\* price of its bid.
LEMMA QuoteFed ==
  ASSUME StarterKitAssumption, MarketInv, LifeInv, MarketInv', LifeInv', FeedInv,
         NEW s \in MarketSellers, market!Quote(s)
  PROVE  FeedInv'
  <1>1. PICK r, price, ref : /\ r = market!Heard(s).round /\ price = quoted[s][r]
                             /\ ref = market!boundReference(s, r, price)
    OBVIOUS
  <1>2. /\ market!Hears(s, "AWARD") /\ UNCHANGED <<pc, round, bids, winner, terms, releases, restarts>>
        /\ IF price = 0 THEN market!Discard(s) /\ UNCHANGED <<quoted, awarded>>
           ELSE /\ quoted' = [quoted EXCEPT ![s][r] = 0]
                /\ market!Reply(s, [verb |-> "ESCROW_REQUIRED", round |-> r, by |-> s, ref |-> ref,
                                    price |-> price])
    BY <1>1 DEF market!Quote, market!OtherThanSeller, market!buyerVars
  <1>3. /\ MarketTyped /\ MarketTyped' /\ TalkInv /\ Nobody \in Agents /\ Nobody # s
        /\ \A a \in MarketSellers : a \in Agents /\ a # Nobody
    BY StarterFacts DEF MarketInv, FeedInv
  <1>4. unread[s] # <<>> /\ market!Heard(s) \in Awards /\ Has(s, market!Heard(s))
    BY <1>2, <1>3, HearsFacts, MessageKinds
  <1>5. r \in Rounds /\ price \in 0 .. Budget
    <2>1. r \in Rounds
      BY <1>1, <1>4 DEF Awards
    <2> QED BY <1>1, <1>3, <2>1 DEF MarketTyped
  <1>6. CASE price = 0
    BY <1>2, <1>6, QuietSellersFed
  <1>7. CASE price # 0
    <2>. DEFINE m == [verb |-> "ESCROW_REQUIRED", round |-> r, by |-> s, ref |-> ref, price |-> price]
    <2>1. price \in Prices
      BY <1>5, <1>7, StarterFacts
    <2>2. /\ m \in Terms /\ m \in Messages /\ m.by = s /\ m.round = r /\ m.price = price
          /\ m.verb = "ESCROW_REQUIRED"
      <3>1. ref \in market!References
        BY <1>1, <1>5, <2>1, StarterFacts
      <3>2. m \in Terms /\ m.verb = "ESCROW_REQUIRED"
        BY <1>1, <1>5, <2>1, <3>1 DEF Terms
      <3> QED BY <3>2, MessageKinds
    <2>3. market!Reply(s, m)
      BY <1>2, <1>7
    <2>. HIDE DEF m
    <2>4. Moves(Read({s}), Sent({Nobody}, m)) /\ \E t : Says(m, t)
      BY <1>3, <1>4, <2>2, <2>3, ReplyMoves, ReplySays
    <2>5. Sent({Nobody}, m)[Nobody] = {m} /\ \A a \in MarketSellers : Sent({Nobody}, m)[a] = {}
      BY <1>3 DEF Sent
    <2>6. TalkInv'
      BY <1>2, <1>3, <2>2, <2>4, TalkKept
    <2>7. ASSUME restarts = 0 PROVE ShownInv'
      <3>1. ShownInv /\ OneRelease' /\ OneAward
        BY <1>2, <2>7 DEF FeedInv, LifeInv, FirstLife, Settled
      <3>2. Folded(Show, m, Show') /\ Show \in Views
        BY <1>3, <2>2, <2>4, <2>7, SpokenShows
      <3>3. /\ \A i \in Rounds : i # r => Show'[i] = Show[i]
            /\ Show'[r].bids = Show[r].bids /\ Show'[r].award = Show[r].award /\ Show'[r].amount = price
            /\ Show'[r].status = "settled" <=> Show[r].status = "settled"
        BY <2>2, <3>2 DEF Folded
      <3>4. Show[r].award = s /\ TheWinner(s, r)
        BY <1>1, <1>4, <3>1 DEF ShownInv, ShownAward, OneAward
      <3>5. Asked(s, r, price) /\ Priced(s, r, price)
        <4>1. Asked(s, r, price)
          BY <1>1 DEF Asked
        <4> QED BY <1>5, <2>1, <3>1, <4>1 DEF ShownInv, ShownBids
      <3>6. SameBids
        BY <3>3 DEF SameBids
      <3>7. \A i \in Rounds : \A a, q : Priced(a, i, q)' = Priced(a, i, q)
        BY <3>6 DEF SameBids, Priced
      <3>8. Deal(r)' /\ price # 0
        BY <1>5, <1>7, <3>3, <3>4, <3>5, <3>7 DEF Deal
      <3>9. Show[r].amount # 0 => Show[r].amount = price
        <4>1. Show[r].amount # 0 => Priced(s, r, Show[r].amount)
          BY <1>5, <3>1, <3>4 DEF ShownInv, ShownTerms, Deal
        <4> QED BY <3>5, <4>1 DEF Priced
      <3>10. Grown
        BY <3>3, <3>7, <3>9 DEF Grown
      <3>11. Settling' = Settling /\ Paying' = Paying /\ (Settling => round \in Rounds) /\ (Paying => Settling)
        BY <1>2, <1>3 DEF Settling, Paying, MarketTyped
      <3>12. ShownBids'
        <4>1. \A a \in MarketSellers, i \in Rounds : quoted'[a][i] \in {0, quoted[a][i]}
          <5>1. quoted' = [quoted EXCEPT ![s][r] = 0] /\ quoted \in [MarketSellers -> [Rounds -> 0 .. Budget]]
            BY <1>2, <1>3, <1>7 DEF MarketTyped
          <5>2. \A a \in MarketSellers, i \in Rounds : quoted'[a][i] = IF a = s /\ i = r THEN 0 ELSE quoted[a][i]
            BY <1>5, <5>1
          <5> QED BY <5>2
        <4>2. \A x \in Sent({Nobody}, m)[Nobody] : x \in Bids \cup Terms => Asked(x.by, x.round, x.price)
          BY <2>2, <2>5, <3>5
        <4>3. \A a \in MarketSellers : \A x \in Sent({Nobody}, m)[a] : x.verb = "WANT" => x.round > round
          BY <2>5
        <4>4. \A a \in DOMAIN bids' : Asked(a, round', bids'[a])
          BY <1>2, <1>3, BidsAsked
        <4>5. ShownBids
          BY <3>1 DEF ShownInv
        <4>6. round' \in {round, round + 1}
          BY <1>2
        <4> QED BY <1>3, <2>4, <3>6, <4>1, <4>2, <4>3, <4>4, <4>5, <4>6, ReadTyped, ShownBidsKept
      <3>13. ShownAward'
        <4>1. \A i \in Rounds : Show'[i].award = Show[i].award
          BY <3>3
        <4> QED BY <1>2, <1>3, <2>4, <2>5, <3>1, <3>11, <4>1, ShownAwardKept DEF ShownInv
      <3>14. ShownTerms'
        <4>1. \A i \in Rounds : Show'[i].amount # 0 =>
                Show[i].amount # 0 \/ (i <= round /\ (i = round => pc # "bids") /\ Deal(i)')
          BY <3>3, <3>4, <3>8 DEF TheWinner
        <4>2. Paying => Show[round].amount # 0
          BY <3>1 DEF ShownInv, ShownTerms
        <4>3. \A x \in {m} : x \in Terms => Show'[x.round].amount # 0
          BY <2>2, <3>3, <3>8
        <4> QED BY <1>2, <1>3, <2>4, <2>5, <3>1, <3>10, <3>11, <4>1, <4>2, <4>3, ShownTermsKept DEF ShownInv
      <3>15. ShownPaid'
        <4>1. \A i \in Rounds : Show'[i].status = "settled" => Show[i].status = "settled"
          BY <3>3
        <4> QED BY <1>2, <1>3, <3>1, <3>2, <3>10, <4>1, ShownPaidKept DEF ShownInv
      <3> QED BY <3>12, <3>13, <3>14, <3>15 DEF ShownInv
    <2> QED BY <1>2, <2>6, <2>7 DEF FeedInv
  <1> QED BY <1>6, <1>7

\* A round is shown as settled when the escrow of its terms is released, which
\* is the one that is shown.
LEMMA ReleaseFundsFed ==
  ASSUME StarterKitAssumption, MarketInv, LifeInv, MarketInv', LifeInv', FeedInv, market!ReleaseFunds
  PROVE  FeedInv'
  <1>1. PICK e0 : e0 = TermsEscrow
    OBVIOUS
  <1>2. PICK v \in {"RELEASED", "ARBITER_RELEASED"} :
          market!Announce(v, winner) \/ UNCHANGED <<unread, threads>>
    BY DEF market!ReleaseFunds
  <1>3. /\ pc = "release" /\ (market!release \/ market!arbitrateRelease) /\ market!EndRound
        /\ UNCHANGED <<round, quoted, restarts>>
    BY DEF market!ReleaseFunds, market!OtherThanBuyer, market!sellerVars
  <1>4. MarketTyped /\ MarketTyped' /\ TalkInv /\ Paying /\ Settling /\ round \in Rounds /\ Nobody \in Agents
    BY <1>3, StarterFacts DEF MarketInv, FeedInv, MarketTyped, Paying, Settling
  <1>5. pc' = "start" /\ ~ Settling' /\ ~ Paying' /\ DOMAIN bids' = {}
    BY <1>3, RoundEnds
  <1>6. e0 \in Escrows /\ releases' = [releases EXCEPT ![e0] = releases[e0] + 1]
    BY <1>1, <1>3, <1>4, TermsFacts DEF market!Unlock
  <1>7. releases'[e0] > 0 /\ \A e \in Escrows : releases[e] > 0 => releases'[e] > 0
    <2>1. releases \in [Escrows -> Nat]
      BY <1>4 DEF MarketTyped
    <2>2. releases'[e0] = releases[e0] + 1 /\ releases[e0] \in Nat
      BY <1>6, <2>1
    <2>3. \A e \in Escrows : e # e0 => releases'[e] = releases[e]
      BY <1>6, <2>1
    <2> QED BY <2>2, <2>3
  <1>8. \A s \in MarketSellers, r \in Rounds : quoted'[s][r] \in {0, quoted[s][r]}
    BY <1>3
  <1>11. /\ pc' = "bids" => pc = "bids"
         /\ Settling' => Settling /\ UNCHANGED winner
         /\ \A s \in DOMAIN bids' : Asked(s, round, bids'[s])
         /\ restarts = 0 /\ Paying' => Show[round].amount # 0
    BY <1>5
  <1>9. CASE UNCHANGED <<unread, threads>>
    <2>1. Quiet
      BY <1>4, <1>9, LostQuiet
    <2>2. Moves(Read({}), Sent({}, 0)) /\ \A a \in Agents : Sent({}, 0)[a] = {}
      BY <1>4, <1>9, LostMoves DEF Sent
    <2> QED BY <1>3, <1>7, <1>8, <1>11, <2>1, <2>2, ReadTyped, CalmFed
  <1>10. CASE market!Announce(v, winner)
    <2>1. PICK m \in Payments : /\ Says(m, Len(threads)) /\ Moves(Read({}), Sent({winner}, m))
                                /\ m.verb = v /\ m.round = round /\ m.escrow = e0
      BY <1>1, <1>4, <1>10, AnnounceSays
    <2>2. /\ m \in Messages /\ \A a \in Agents : \A x \in Sent({winner}, m)[a] : x \in Payments
          /\ Payments \cap (Wants \cup Bids \cup Terms \cup Awards) = {}
      <3>1. Payments \cap (Wants \cup Bids \cup Terms \cup Awards) = {}
        BY DEF Payments, Wants, Bids, Terms, Awards
      <3> QED BY <3>1, MessageKinds DEF Sent
    <2>3. CASE v = "ARBITER_RELEASED"
      BY <1>3, <1>7, <1>8, <1>11, <2>1, <2>2, <2>3, ReadTyped, CalmFed
    <2>4. CASE v = "RELEASED"
      <3>1. TalkInv'
        BY <1>3, <1>4, <1>7, <2>1, <2>2, TalkKept
      <3>2. ASSUME restarts = 0 PROVE ShownInv'
        <4>1. ShownInv /\ OneRelease' /\ Settles
          BY <1>3, <3>2 DEF FeedInv, LifeInv, FirstLife, Settled
        <4>2. Folded(Show, m, Show') /\ Show \in Views
          BY <1>4, <2>1, <2>2, <3>2, SpokenShows
        <4>3. /\ \A r \in Rounds : r # round => Show'[r] = Show[r]
              /\ Show'[round].bids = Show[round].bids /\ Show'[round].award = Show[round].award
              /\ Show'[round].amount = Show[round].amount
          BY <2>1, <2>4, <4>2 DEF Folded
        <4>4. \A r \in Rounds : /\ Show'[r].bids = Show[r].bids /\ Show'[r].award = Show[r].award
                                /\ Show'[r].amount = Show[r].amount
          BY <4>3
        <4>5. Grown /\ SameBids
          BY <4>4 DEF Grown, SameBids, Priced
        <4>6. ShownBids'
          <5>1. \A x \in Sent({winner}, m)[Nobody] : x \in Bids \cup Terms => Asked(x.by, x.round, x.price)
            BY <1>4, <2>2
          <5>2. \A s \in MarketSellers : \A x \in Sent({winner}, m)[s] : x.verb = "WANT" => x.round > round
            <6>1. \A s \in MarketSellers : s \in Agents
              BY StarterFacts
            <6>2. \A x \in Payments : x.verb # "WANT"
              BY DEF Payments
            <6> QED BY <2>2, <6>1, <6>2
          <5> QED BY <1>3, <1>4, <1>5, <1>8, <2>1, <4>1, <4>5, <5>1, <5>2, ReadTyped, ShownBidsKept DEF ShownInv
        <4>7. ShownAward'
          <5>1. \A s \in MarketSellers : \A x \in Sent({winner}, m)[s] : x \notin Awards
            <6>1. \A s \in MarketSellers : s \in Agents
              BY StarterFacts
            <6> QED BY <2>2, <6>1
          <5> QED BY <1>3, <1>4, <1>5, <2>1, <4>1, <4>4, <5>1, ShownAwardKept DEF ShownInv
        <4>8. ShownTerms'
          <5>1. \A x \in Sent({winner}, m)[Nobody] : x \notin Terms
            BY <1>4, <2>2
          <5> QED BY <1>3, <1>4, <1>5, <2>1, <4>1, <4>4, <4>5, <5>1, ShownTermsKept DEF ShownInv
        <4>9. Show[round].amount # 0 /\ DealEscrow(round) = e0
          <5>1. Show[round].amount # 0 /\ Deal(round) /\ Show[round].award = winner
            BY <1>4, <4>1 DEF ShownInv, ShownAward, ShownTerms
          <5>2. winner \in DOMAIN bids
            BY <1>4 DEF MarketTyped
          <5>3. winner \in MarketSellers /\ bids[winner] \in Prices /\ Asked(winner, round, bids[winner])
            BY <1>4, <5>2, BidsAsked
          <5>4. Priced(winner, round, bids[winner])
            BY <1>4, <4>1, <5>3 DEF ShownInv, ShownBids
          <5>5. Show[round].amount = bids[winner]
            BY <5>1, <5>4 DEF Deal, Priced
          <5>6. /\ terms.by = winner /\ terms.price = bids[winner]
                /\ terms.ref = market!boundReference(terms.by, round, terms.price)
            BY <1>4, <4>1 DEF Settles, MarketTyped
          <5>7. DealEscrow(round) = market!EscrowFor(winner, market!boundReference(winner, round, bids[winner]))
            BY <5>1, <5>5 DEF DealEscrow
          <5>8. e0 = market!EscrowFor(winner, market!boundReference(winner, round, bids[winner]))
            BY <1>1, <5>6 DEF TermsEscrow
          <5> QED BY <5>1, <5>7, <5>8
        <4>10. ASSUME NEW r \in Rounds, r = round
               PROVE  Show'[r].amount # 0 /\ releases'[DealEscrow(r)'] = 1
          <5>1. DealEscrow(r)' = DealEscrow(r)
            BY <4>3, <4>10 DEF DealEscrow, market!EscrowFor, market!arbitratedEscrowPda, market!escrowPda, market!boundReference
          <5>2. Escrows' = Escrows
            BY DEF Escrows, market!Escrows, market!References, market!Rounds, market!Prices
          <5>3. releases'[e0] = 1
            BY <1>6, <1>7, <4>1, <5>2 DEF OneRelease
          <5> QED BY <4>3, <4>9, <4>10, <5>1, <5>3
        <4>11. ShownPaid'
          BY <1>4, <1>7, <4>1, <4>2, <4>3, <4>5, <4>10, ShownPaidKept DEF ShownInv
        <4> QED BY <4>6, <4>7, <4>8, <4>11 DEF ShownInv
      <3> QED BY <1>3, <3>1, <3>2 DEF FeedInv
    <2> QED BY <2>3, <2>4
  <1> QED BY <1>2, <1>9, <1>10

LEMMA FeedInitial == ASSUME StarterKitAssumption, Init PROVE FeedInv
  <1>1. /\ pc = "start" /\ round = 0 /\ restarts = 0 /\ threads = <<<<>>>> /\ unread = [a \in Agents |-> <<>>]
        /\ quoted = [s \in MarketSellers |-> [r \in Rounds |-> 0]] /\ bids = market!NoBids
    BY DEF Init, market!Init, Rounds, Agents
  <1>2. MarketTyped /\ Nobody \in Agents /\ \A s \in MarketSellers : s \in Agents
    BY MarketInitial, StarterFacts DEF MarketInv
  <1>3. DOMAIN threads = {1} /\ threads[1] = <<>> /\ DOMAIN threads[1] = {} /\ Len(threads) = 1
    BY <1>1
  <1>4. \A a \in Agents : (\A m : ~ Has(a, m)) /\ DOMAIN unread[a] = {}
    BY <1>1 DEF Has
  <1>5. TalkInv
    BY <1>1, <1>3, <1>4 DEF TalkInv, Addressed, ReleasesTold, In
  <1>6. Show = NewView
    <2>1. <<>> \in Seq(Messages) /\ Len(<<>>) = 0
      BY EmptySeq
    <2>2. PICK f : FoldsTo(f, <<>>)
      BY <2>1, FoldSteps
    <2> QED BY <1>3, <2>1, <2>2 DEF FoldsTo, Steps, Show
  <1>7. \A r \in Rounds : DOMAIN Show[r].bids = {} /\ Show[r].amount = 0 /\ Show[r].status = "bidding"
    <2>1. market!Feed!NewRound.bids = market!Feed!NoBids /\ market!Feed!NewRound.amount = 0
          /\ market!Feed!NewRound.status = "bidding"
      BY DEF market!Feed!NewRound
    <2>2. DOMAIN market!Feed!NoBids = {}
      BY DEF market!Feed!NoBids
    <2> QED BY <1>6, <2>1, <2>2 DEF NewView
  <1>8. ~ Settling /\ ~ Paying /\ DOMAIN bids = {}
    BY <1>1 DEF Settling, Paying, market!NoBids
  <1>9. ShownBids
    <2>1. \A s \in MarketSellers, r \in Rounds, p \in Prices : ~ Asked(s, r, p)
      BY <1>1, <1>2, <1>4, <1>8, StarterFacts DEF Asked
    <2> QED BY <1>7, <2>1 DEF ShownBids
  <1>10. ShownAward /\ ShownTerms /\ ShownPaid
    BY <1>2, <1>4, <1>7, <1>8 DEF ShownAward, ShownTerms, ShownPaid
  <1> QED BY <1>5, <1>9, <1>10 DEF FeedInv, ShownInv

LEMMA FeedStep ==
  ASSUME StarterKitAssumption, MarketInv, LifeInv, MarketInv', LifeInv', FeedInv, market!Next PROVE FeedInv'
  <1>1. CASE market!BuyerRestarts
    <2>1. restarts' # 0
      BY <1>1 DEF market!BuyerRestarts, LifeInv
    <2> QED BY <1>1, <2>1, RestartTalks DEF FeedInv, MarketInv
  <1>2. CASE ~ market!BuyerRestarts
    BY <1>2, WantFed, ListenFed, AwardWinnerFed, DepositFed, ReleaseFundsFed, BidFed, QuoteFed, QuietSellersFed
    DEF market!Next, market!Buyer, market!SellerStep
  <1> QED BY <1>1, <1>2

LEMMA FeedPreserved ==
  ASSUME StarterKitAssumption, MarketInv, LifeInv, MarketInv', LifeInv', FeedInv, [Next]_vars PROVE FeedInv'
  <1>1. CASE Market
    BY <1>1, FeedStep DEF Market
  <1>2. CASE UNCHANGED marketVars
    <2>1. TalkInv' = TalkInv
      BY <1>2 DEF marketVars, TalkInv, Addressed, ReleasesTold, Agents, market!Agents
    <2>2. Show' = Show
      BY <1>2 DEF marketVars, Show
    <2>3. \A s, r, p : Asked(s, r, p)' = Asked(s, r, p)
      BY <1>2 DEF marketVars, Asked, Has, Bids, Terms, Rounds, market!Rounds, Prices, market!Prices,
        market!References, market!boundReference
    <2>4. ShownBids' = ShownBids
      BY <1>2, <2>2, <2>3 DEF marketVars, ShownBids, Priced, IsWant, Rounds, market!Rounds, Prices, market!Prices
    <2>5. ShownAward' = ShownAward
      BY <1>2, <2>2 DEF marketVars, ShownAward, Has, Settling, Awards, Rounds, market!Rounds
    <2>6. ShownTerms' = ShownTerms
      BY <1>2, <2>2 DEF marketVars, ShownTerms, Has, Paying, Terms, Deal, Priced, Rounds, market!Rounds, Prices,
        market!Prices, market!References, market!boundReference
    <2>7. ShownPaid' = ShownPaid
      BY <1>2, <2>2 DEF marketVars, ShownPaid, DealEscrow, market!EscrowFor, market!arbitratedEscrowPda,
        market!escrowPda, market!boundReference, Rounds, market!Rounds
    <2> QED BY <1>2, <2>1, <2>4, <2>5, <2>6, <2>7 DEF marketVars, FeedInv, ShownInv
  <1> QED BY <1>1, <1>2 DEF Next, Quickstart, Broker, Bridge, vars

\* A round is shown as settled when its release was said in any thread, and
\* then one of its escrows was released; and until the buyer restarts, the
\* seller and the amount that are shown are those of the escrow that was, once.
THEOREM FeedShowsWhatWasPaid == Spec => []FeedShowsThePaid
  <1>1. Init => LifeInv /\ FeedInv
    BY FirstLifeInitial, FeedInitial, StarterKitAssumption
  <1>2. MarketInv /\ MarketInv' /\ LifeInv /\ FeedInv /\ [Next]_vars => LifeInv' /\ FeedInv'
    BY LifePreserved, FeedPreserved, StarterKitAssumption
  <1>3. ASSUME MarketInv, LifeInv, FeedInv PROVE FeedShowsThePaid
    <2>. DEFINE shown == market!Feed!foldRounds(market!Feed!collectMessages(threads))
    <2>1. threads \in Seq(Seq(Messages)) /\ restarts \in Nat /\ MarketTyped /\ TalkInv /\ Len(threads) >= 1
      BY <1>3 DEF MarketInv, MarketTyped, LifeInv, FeedInv, TalkInv
    <2>2. PICK ms : ms = market!Feed!collectMessages(threads)
      OBVIOUS
    <2>3. /\ ms \in Seq(Messages) /\ \A m : In(m, ms) <=> \E t \in DOMAIN threads : In(m, threads[t])
          /\ Len(threads) = 1 => ms = threads[1]
      BY <2>1, <2>2, CollectedAre, StarterKitAssumption
    <2>4. ASSUME NEW r \in Rounds
          PROVE  /\ shown[r].status = "settled" <=> market!Said("RELEASED", r)
                 /\ shown[r].status = "settled" => market!Paid(r)
                 /\ shown[r].status = "settled" /\ restarts = 0 =>
                      \E s \in MarketSellers :
                        /\ shown[r].award = s /\ shown[r].amount = shown[r].bids[s]
                        /\ releases[market!EscrowFor(s, market!boundReference(s, r, shown[r].bids[s]))] = 1
      <3>1. shown[r].status = "settled" <=> \E m : In(m, ms) /\ m.verb = "RELEASED" /\ m.round = r
        BY <2>2, <2>3, SettledIsSaid, StarterKitAssumption
      <3>2. market!Said("RELEASED", r) <=> \E m : In(m, ms) /\ m.verb = "RELEASED" /\ m.round = r
        <4>1. market!Said("RELEASED", r)
                <=> \E t \in DOMAIN threads : \E m : In(m, threads[t]) /\ m.verb = "RELEASED" /\ m.round = r
          BY DEF market!Said, In
        <4> QED BY <2>3, <4>1
      <3>3. ASSUME NEW m, In(m, ms), m.verb = "RELEASED", m.round = r PROVE market!Paid(r)
        <4>1. m \in Payments
          <5>1. m \in Messages
            BY <2>3, <3>3, ElementOfSeq, LenProperties DEF In
          <5> QED BY <3>3, <5>1, MessageKinds
        <4>2. m.escrow \in Escrows /\ m.escrow[2][1] = r
          BY <3>3, <4>1 DEF Payments
        <4>3. releases[m.escrow] > 0
          BY <2>1, <2>3, <3>3 DEF TalkInv, ReleasesTold
        <4> QED BY <4>2, <4>3 DEF market!Paid, Escrows
      <3>4. ASSUME restarts = 0, shown[r].status = "settled"
            PROVE  LET s == shown[r].award IN
                   /\ s \in MarketSellers /\ shown[r].amount = shown[r].bids[s]
                   /\ releases[market!EscrowFor(s, market!boundReference(s, r, shown[r].bids[s]))] = 1
        <4>1. shown = Show /\ Show \in Views /\ ShownInv
          BY <1>3, <2>1, <2>2, <2>3, <3>4, OneThread, StarterKitAssumption DEF Show, TalkInv, FeedInv
        <4>2. Show[r].amount # 0 /\ releases[DealEscrow(r)] = 1 /\ Deal(r)
          BY <3>4, <4>1 DEF ShownInv, ShownPaid, ShownTerms
        <4>3. Show[r].award \in MarketSellers
          BY <4>1, <4>2, DealTyped, StarterKitAssumption
        <4> QED BY <4>1, <4>2, <4>3 DEF Deal, Priced, DealEscrow
      <3> QED BY <3>1, <3>2, <3>3, <3>4
    <2> QED BY <2>4 DEF FeedShowsThePaid, market!FeedShowsThePaid, Rounds
  <1> QED BY <1>1, <1>2, <1>3, MarketSafe, PTL DEF Spec

-----------------------------------------------------------------------------
(***************************************************************************)
(* The swarm broker: what it resold was paid with the charge of that very  *)
(* request, which is the markup on the price named, to its rounding.       *)
(***************************************************************************)
Asks == swarm!Asks
SellerNames == swarm!Names
NoCharge == swarm!NoCharge
Unpaid == swarm!Unpaid
NoQuote == swarm!NoQuote

BrokerConstants ==
  /\ MaxAsks \in Nat /\ Quotes \subseteq [price : Nat \ {0}, url : Nat] /\ Sellers \in Seq(SellerNames) /\ Percent \in Nat
  /\ "none" \notin Threads

Lanes == Threads \cup (SellerNames \X Asks)
Message == {m \in [thread : Lanes, kind : {"request", "paid", "quote", "delivered", "error"},
                   n : 0 .. MaxAsks, quote : Quotes \cup {NoQuote}] :
              m.kind = "quote" => m.quote \in Quotes}
SwarmQuote == [seller : SellerNames, quote : Quotes]
Working == {"ask", "quote", "buy", "delivery", "resell", "proof"}
Process == [pc : {"idle"} \cup Working, n : 0 .. MaxAsks, thread : Lanes \cup {"none"},
            next : Nat \ {0}, quotes : Seq(SwarmQuote)]

\* The shape of the broker's state.
BrokerTyped ==
  /\ broker \in Process /\ mentions \in Seq(Message)
  /\ due \subseteq SellerNames \X Asks \X {"quote", "delivered"}
  /\ asks \in [made : Nat, taken : 0 .. MaxAsks]
  /\ charge \in [Asks -> [amount : Nat, thread : Lanes \cup {"none"}, cost : Nat]]
  /\ spent \in [Asks -> Nat] /\ earned \in [Asks -> Nat \cup {Unpaid}]
  /\ resold \subseteq Asks

\* Where the broker is in a request.
InRequest ==
  /\ broker.pc \in Working => broker.n \in Asks /\ broker.n = asks.taken
  /\ broker.pc = "quote" => broker.next <= Len(Sellers)
  /\ broker.pc \in {"buy", "delivery", "resell"} => broker.quotes # <<>>
  /\ broker.pc \in {"delivery", "resell"} => spent[broker.n] > 0

\* The request at hand has no charge before the broker holds its data, and no
\* request to come has one.
ChargedInOrder ==
  /\ \A n \in Asks : n > asks.taken => charge[n] = NoCharge
  /\ broker.pc \in Working \ {"proof"} => charge[broker.n] = NoCharge
  /\ broker.pc = "proof" => charge[broker.n] # NoCharge

\* A charge is for data that was bought, and is the price named with the markup; a
\* payment is the charge, and data went out for a payment.
Books ==
  /\ \A n \in Asks : charge[n] # NoCharge => spent[n] > 0 /\ charge[n].amount = swarm!Resale(charge[n].cost)
  /\ \A n \in Asks : earned[n] = Unpaid \/ (charge[n] # NoCharge /\ earned[n] = charge[n].amount)
  /\ \A n \in resold : charge[n] # NoCharge /\ earned[n] = charge[n].amount

BrokerInv == BrokerTyped /\ InRequest /\ ChargedInOrder /\ Books

LEMMA Constants == StarterKitAssumption => BrokerConstants
  BY DEF StarterKitAssumption, swarm!BrokerAssumption, BrokerConstants, SellerNames

-----------------------------------------------------------------------------
\* The cheapest is one of the quotes.
LEMMA SmallestExists ==
  ASSUME NEW S, S \subseteq Nat, S # {}
  PROVE  \E m \in S : \A x \in S : m <= x
  <1>1. \E m \in S : \A x \in S : ~ (<<x, m>> \in OpToRel(<, Nat))
    BY WFMin, NatLessThanWellFounded, Zenon
  <1>2. PICK m \in S : \A x \in S : ~ (<<x, m>> \in OpToRel(<, Nat))
    BY <1>1
  <1>3. \A x \in S : ~ (x < m)
    BY <1>2 DEF OpToRel
  <1> QED BY <1>3

LEMMA CheapestIsAQuote ==
  ASSUME BrokerConstants, NEW quotes \in Seq(SwarmQuote), quotes # <<>>
  PROVE  swarm!pickCheapest(quotes) \in SwarmQuote
  <1>. DEFINE Cheapest(i) == \A j \in DOMAIN quotes :
                               /\ quotes[i].quote.price <= quotes[j].quote.price
                               /\ j < i => quotes[i].quote.price < quotes[j].quote.price
  <1>1. DOMAIN quotes \subseteq Nat /\ DOMAIN quotes # {} /\ \A i \in DOMAIN quotes : quotes[i] \in SwarmQuote
    <2>1. DOMAIN quotes = 1 .. Len(quotes) /\ Len(quotes) \in Nat
      OBVIOUS
    <2>2. Len(quotes) # 0
      BY EmptySeq
    <2>3. \A i \in 1 .. Len(quotes) : quotes[i] \in SwarmQuote
      BY ElementOfSeq
    <2>4. 1 \in DOMAIN quotes
      BY <2>1, <2>2
    <2> QED BY <2>1, <2>3, <2>4
  <1>2. \A i \in DOMAIN quotes : quotes[i].quote.price \in Nat
    BY <1>1 DEF SwarmQuote, BrokerConstants
  <1>. DEFINE PricesQuoted == {quotes[i].quote.price : i \in DOMAIN quotes}
  <1>3. PICK p \in PricesQuoted : \A x \in PricesQuoted : p <= x
    BY <1>1, <1>2, SmallestExists
  <1>. DEFINE Best == {i \in DOMAIN quotes : quotes[i].quote.price = p}
  <1>4. PICK b \in Best : \A i \in Best : b <= i
    BY <1>1, <1>3, SmallestExists
  <1>5. \A j \in DOMAIN quotes : quotes[b].quote.price <= quotes[j].quote.price
    BY <1>3, <1>4
  <1>6. \A j \in DOMAIN quotes : j < b => quotes[j].quote.price # p
    BY <1>1, <1>4
  <1>7. Cheapest(b)
    BY <1>2, <1>4, <1>5, <1>6
  <1>8. \E i \in DOMAIN quotes : Cheapest(i)
    BY <1>4, <1>7
  <1>9. (CHOOSE i \in DOMAIN quotes : Cheapest(i)) \in DOMAIN quotes
    BY <1>8
  <1>10. swarm!pickCheapest(quotes) = quotes[CHOOSE i \in DOMAIN quotes : Cheapest(i)]
    BY DEF swarm!pickCheapest
  <1> QED BY <1>1, <1>9, <1>10

\* The markup is there to half a micro-SOL (broker/src/index.ts:77).
LEMMA MarkupIsKept ==
  ASSUME NEW cost \in Nat, NEW rate \in Nat, rate = Percent
  PROVE  swarm!Resale(cost) \in Nat /\ 100 * swarm!Resale(cost) >= rate * cost - 500
  <1>1. PICK m : m = cost * rate
    OBVIOUS
  <1>2. m \in Nat /\ rate * cost = m
    BY <1>1
  <1>3. swarm!Resale(cost) = 10 * ((m + 500) \div 1000)
    BY <1>1 DEF swarm!Resale
  <1>4. 10 * ((m + 500) \div 1000) \in Nat /\ 100 * (10 * ((m + 500) \div 1000)) >= m - 500
    BY <1>2
  <1> QED BY <1>2, <1>3, <1>4
-----------------------------------------------------------------------------
Idle == swarm!Idle
Best == swarm!Best

\* The quote the broker buys at.
LEMMA BestIsAQuote ==
  ASSUME BrokerConstants, broker \in Process, broker.quotes # <<>>
  PROVE  swarm!Cheapest.seller \in SellerNames /\ Best \in Quotes /\ Best.price \in Nat /\ Best.url \in Nat
  <1>1. broker.quotes \in Seq(SwarmQuote)
    BY DEF Process
  <1>2. swarm!Cheapest \in SwarmQuote
    BY <1>1, CheapestIsAQuote DEF swarm!Cheapest
  <1>3. Best \in Quotes /\ swarm!Cheapest.seller \in SellerNames
    BY <1>2 DEF SwarmQuote, Best, swarm!Best
  <1> QED BY <1>3 DEF BrokerConstants

LEMMA BrokerInitial == ASSUME StarterKitAssumption, Init PROVE BrokerInv
  <1>1. BrokerConstants
    BY Constants
  <1>2. /\ broker = Idle /\ mentions = <<>> /\ due = {} /\ asks = [made |-> 0, taken |-> 0]
        /\ charge = [n \in Asks |-> NoCharge]
        /\ spent = [n \in Asks |-> 0] /\ earned = [n \in Asks |-> Unpaid] /\ resold = {}
    BY DEF Init, swarm!BrokerInit, Idle, Asks, NoCharge, Unpaid
  <1>3. Idle \in Process
    BY <1>1, EmptySeq DEF Idle, swarm!Idle, Process, BrokerConstants
  <1>4. BrokerTyped
    BY <1>1, <1>2, <1>3, EmptySeq DEF BrokerTyped, NoCharge, swarm!NoCharge, BrokerConstants
  <1>5. InRequest /\ ChargedInOrder /\ Books
    BY <1>2 DEF InRequest, ChargedInOrder, Books, Working, Idle, swarm!Idle
  <1> QED BY <1>4, <1>5 DEF BrokerInv

\* The broker reads its first mention, or another agent adds one.
LEMMA Mentions ==
  ASSUME BrokerTyped
  PROVE  /\ swarm!Hears => Head(mentions) \in Message /\ mentions' \in Seq(Message)
         /\ \A m \in Message : mentions' = Append(mentions, m) => mentions' \in Seq(Message)
  <1>1. mentions \in Seq(Message)
    BY DEF BrokerTyped
  <1>2. swarm!Hears => Head(mentions) \in Message /\ mentions' \in Seq(Message)
    BY <1>1, HeadTailProperties DEF swarm!Hears
  <1>3. \A m \in Message : Append(mentions, m) \in Seq(Message)
    BY <1>1, AppendProperties
  <1> QED BY <1>2, <1>3

\* A step that touches neither the requests nor the books.
LEMMA QuietStep ==
  ASSUME BrokerInv, UNCHANGED <<asks, charge, spent, earned, resold>>,
         mentions' \in Seq(Message), due' \subseteq SellerNames \X Asks \X {"quote", "delivered"},
         broker' \in Process, InRequest',
         broker'.pc \in Working \ {"proof"} => charge[broker'.n] = NoCharge,
         broker'.pc = "proof" => charge[broker'.n] # NoCharge
  PROVE  BrokerInv'
  <1>1. BrokerTyped'
    BY DEF BrokerInv, BrokerTyped
  <1>2. ChargedInOrder'
    BY DEF BrokerInv, ChargedInOrder
  <1>3. Books'
    BY DEF BrokerInv, Books
  <1> QED BY <1>1, <1>2, <1>3 DEF BrokerInv

\* The end of a request, whatever became of it.
LEMMA BackToIdle ==
  ASSUME BrokerConstants, BrokerInv, UNCHANGED <<asks, due, charge, spent, earned, resold>>,
         mentions' \in Seq(Message), broker' = Idle
  PROVE  BrokerInv'
  <1>1. broker' \in Process /\ broker'.pc = "idle"
    BY EmptySeq DEF Idle, swarm!Idle, Process, BrokerConstants
  <1>2. InRequest'
    BY <1>1 DEF InRequest, Working
  <1> QED BY <1>1, <1>2, QuietStep DEF BrokerInv, BrokerTyped, Working

\* The process stays where it is.
LEMMA BrokerWaits ==
  ASSUME BrokerInv, UNCHANGED <<broker, asks, charge, spent, earned, resold>>,
         mentions' \in Seq(Message), due' \subseteq SellerNames \X Asks \X {"quote", "delivered"}
  PROVE  BrokerInv'
  <1>1. InRequest'
    BY DEF BrokerInv, InRequest, swarm!Best
  <1> QED BY <1>1, QuietStep DEF BrokerInv, BrokerTyped, ChargedInOrder

-----------------------------------------------------------------------------
\* The broker's own steps.
LEMMA TakeAskKeeps == ASSUME BrokerConstants, BrokerInv, swarm!TakeAsk PROVE BrokerInv'
  <1>1. /\ Head(mentions) \in Message /\ mentions' \in Seq(Message)
        /\ UNCHANGED <<due, charge, spent, earned, resold>>
        /\ broker.pc = "idle" /\ asks.taken < MaxAsks
    BY Mentions DEF swarm!TakeAsk, swarm!OthersSame, BrokerInv
  <1>2. CASE UNCHANGED <<broker, asks>>
    BY <1>1, <1>2, BrokerWaits DEF BrokerInv, BrokerTyped
  <1>3. CASE /\ asks' = [asks EXCEPT !.taken = @ + 1]
             /\ broker' = [Idle EXCEPT !.pc = "ask", !.n = asks'.taken, !.thread = Head(mentions).thread]
    <2>1. asks \in [made : Nat, taken : 0 .. MaxAsks]
      BY DEF BrokerInv, BrokerTyped
    <2>2. /\ asks'.taken = asks.taken + 1 /\ asks'.taken \in Asks
          /\ asks' \in [made : Nat, taken : 0 .. MaxAsks]
      BY <1>1, <1>3, <2>1 DEF BrokerConstants, Asks, swarm!Asks
    <2>3. broker' \in Process /\ broker'.pc = "ask" /\ broker'.n = asks'.taken
      <3>1. broker' = [pc |-> "ask", n |-> asks'.taken, thread |-> Head(mentions).thread, next |-> 1,
                       quotes |-> <<>>]
        BY <1>3 DEF Idle, swarm!Idle
      <3>2. Head(mentions).thread \in Lanes /\ <<>> \in Seq(SwarmQuote)
        BY <1>1, EmptySeq DEF Message
      <3> QED BY <2>2, <3>1, <3>2 DEF Process, Working, Asks, swarm!Asks, BrokerConstants
    <2>4. BrokerTyped'
      BY <1>1, <2>2, <2>3 DEF BrokerInv, BrokerTyped
    <2>5. InRequest'
      BY <2>2, <2>3 DEF InRequest
    <2>6. ChargedInOrder'
      <3>1. \A n \in Asks : n > asks'.taken => n > asks.taken
        BY <2>1, <2>2 DEF Asks, swarm!Asks
      <3>2. asks'.taken > asks.taken
        BY <2>1, <2>2
      <3> QED BY <1>1, <2>2, <2>3, <3>1, <3>2 DEF BrokerInv, ChargedInOrder
    <2>7. Books'
      BY <1>1 DEF BrokerInv, Books
    <2> QED BY <2>4, <2>5, <2>6, <2>7 DEF BrokerInv
  <1> QED BY <1>2, <1>3 DEF swarm!TakeAsk, Idle

LEMMA AskNextKeeps == ASSUME BrokerConstants, BrokerInv, swarm!AskNext PROVE BrokerInv'
  <1>1. /\ broker.pc = "ask" /\ UNCHANGED <<mentions, asks, charge, spent, earned, resold>>
        /\ broker \in Process /\ mentions \in Seq(Message)
    BY DEF swarm!AskNext, swarm!OthersSame, BrokerInv, BrokerTyped
  <1>2. broker.n \in Asks /\ charge[broker.n] = NoCharge /\ broker.n = asks.taken
    BY <1>1 DEF BrokerInv, InRequest, ChargedInOrder, Working
  <1>3. CASE UNCHANGED due /\ broker.quotes = <<>> /\ broker' = Idle
    BY <1>1, <1>3, BackToIdle
  <1>4. CASE UNCHANGED due /\ broker.quotes # <<>> /\ broker' = [broker EXCEPT !.pc = "buy"]
    <2>1. broker' \in Process /\ broker'.pc = "buy" /\ broker'.n = broker.n /\ broker'.quotes = broker.quotes
      BY <1>1, <1>4 DEF Process, Working
    <2>2. InRequest'
      BY <1>1, <1>2, <1>4, <2>1 DEF InRequest
    <2> QED BY <1>1, <1>2, <1>4, <2>1, <2>2, QuietStep DEF BrokerInv, BrokerTyped
  <1>5. CASE /\ ~ broker.next > Len(Sellers)
             /\ broker' = [broker EXCEPT !.pc = "quote"]
             /\ due' = due \cup {<<Sellers[broker.next], broker.n, "quote">>}
    <2>1. /\ broker' \in Process /\ broker'.pc = "quote" /\ broker'.n = broker.n
          /\ broker'.next = broker.next
      BY <1>1, <1>5 DEF Process, Working
    <2>2. broker.next \in 1 .. Len(Sellers)
      BY <1>1, <1>5 DEF Process, BrokerConstants
    <2>3. Sellers[broker.next] \in SellerNames
      BY <2>2, ElementOfSeq DEF BrokerConstants
    <2>4. due' \subseteq SellerNames \X Asks \X {"quote", "delivered"}
      BY <1>2, <1>5, <2>3 DEF BrokerInv, BrokerTyped
    <2>5. InRequest'
      BY <1>1, <1>2, <2>1, <2>2 DEF InRequest
    <2> QED BY <1>1, <1>2, <2>1, <2>4, <2>5, QuietStep
  <1> QED BY <1>3, <1>4, <1>5 DEF swarm!AskNext, Idle

LEMMA HearQuoteKeeps == ASSUME BrokerConstants, BrokerInv, swarm!HearQuote PROVE BrokerInv'
  <1>1. /\ broker.pc = "quote" /\ UNCHANGED <<due, asks, charge, spent, earned, resold>>
        /\ broker \in Process /\ mentions' \in Seq(Message)
        /\ due \subseteq SellerNames \X Asks \X {"quote", "delivered"}
    BY Mentions DEF swarm!HearQuote, swarm!OthersSame, BrokerInv, BrokerTyped
  <1>2. broker.n \in Asks /\ charge[broker.n] = NoCharge /\ broker.n = asks.taken
    BY <1>1 DEF BrokerInv, InRequest, ChargedInOrder, Working
  <1>3. ASSUME NEW quotes \in Seq(SwarmQuote),
               broker' = [broker EXCEPT !.pc = "ask", !.next = @ + 1, !.quotes = quotes]
        PROVE  BrokerInv'
    <2>1. /\ broker.next + 1 \in Nat \ {0} /\ broker.n \in 0 .. MaxAsks
          /\ broker.thread \in Lanes \cup {"none"}
      BY <1>1 DEF Process
    <2>2. broker' = [pc |-> "ask", n |-> broker.n, thread |-> broker.thread, next |-> broker.next + 1,
                     quotes |-> quotes]
      BY <1>1, <1>3 DEF Process
    <2>3. broker' \in Process /\ broker'.pc = "ask" /\ broker'.n = broker.n
      BY <2>1, <2>2 DEF Process, Working
    <2>4. InRequest'
      BY <1>1, <1>2, <2>3 DEF InRequest
    <2> QED BY <1>1, <1>2, <2>3, <2>4, QuietStep
  <1>4. CASE UNCHANGED broker
    BY <1>1, <1>4, BrokerWaits
  <1>5. CASE broker' = [broker EXCEPT !.pc = "ask", !.next = @ + 1]
    <2>1. broker.quotes \in Seq(SwarmQuote)
      BY <1>1 DEF Process
    <2>2. broker' = [broker EXCEPT !.pc = "ask", !.next = @ + 1, !.quotes = broker.quotes]
      BY <1>1, <1>5 DEF Process
    <2> QED BY <1>3, <2>1, <2>2
  <1>6. CASE /\ swarm!Hears /\ Head(mentions).kind = "quote"
             /\ broker' = [[broker EXCEPT !.pc = "ask", !.next = @ + 1] EXCEPT !.quotes =
                             Append(@, [seller |-> Sellers[broker.next], quote |-> Head(mentions).quote])]
    <2>. DEFINE q == [seller |-> Sellers[broker.next], quote |-> Head(mentions).quote]
    <2>1. Head(mentions) \in Message
      BY <1>6, Mentions DEF BrokerInv
    <2>2. broker.next \in 1 .. Len(Sellers)
      <3>1. broker.next \in Nat \ {0} /\ broker.next <= Len(Sellers)
        BY <1>1 DEF Process, BrokerInv, InRequest
      <3>2. Len(Sellers) \in Nat
        BY LenProperties DEF BrokerConstants
      <3> QED BY <3>1, <3>2
    <2>3. q \in SwarmQuote
      BY <1>6, <2>1, <2>2, ElementOfSeq DEF BrokerConstants, Message, SwarmQuote
    <2>4. broker.quotes \in Seq(SwarmQuote)
      BY <1>1 DEF Process
    <2>5. Append(broker.quotes, q) \in Seq(SwarmQuote)
      BY <2>3, <2>4, AppendProperties
    <2>6. broker' = [broker EXCEPT !.pc = "ask", !.next = @ + 1, !.quotes = Append(broker.quotes, q)]
      BY <1>1, <1>6 DEF Process
    <2> QED BY <1>3, <2>5, <2>6
  <1> QED BY <1>4, <1>5, <1>6 DEF swarm!HearQuote

LEMMA BuyKeeps == ASSUME BrokerConstants, BrokerInv, swarm!Buy PROVE BrokerInv'
  <1>1. /\ broker.pc = "buy" /\ UNCHANGED <<mentions, asks, charge, earned, resold>>
        /\ broker \in Process /\ mentions \in Seq(Message) /\ broker.quotes # <<>>
        /\ due \subseteq SellerNames \X Asks \X {"quote", "delivered"}
    BY DEF swarm!Buy, BrokerInv, BrokerTyped, InRequest
  <1>2. broker.n \in Asks /\ charge[broker.n] = NoCharge /\ broker.n = asks.taken
    BY <1>1 DEF BrokerInv, InRequest, ChargedInOrder, Working
  <1>3. CASE broker' = Idle /\ UNCHANGED <<due, spent>>
    BY <1>1, <1>3, BackToIdle
  <1>4. swarm!Cheapest.seller \in SellerNames /\ Best.url \in Nat
    BY <1>1, BestIsAQuote
  <1>5. ASSUME Best.url > 0, spent' = [spent EXCEPT ![broker.n] = Best.url]
        PROVE  /\ spent' \in [Asks -> Nat] /\ spent'[broker.n] > 0 /\ Books'
    <2>1. spent' \in [Asks -> Nat] /\ spent'[broker.n] > 0
      BY <1>2, <1>4, <1>5 DEF BrokerInv, BrokerTyped
    <2>2. \A n \in Asks : charge[n] # NoCharge => spent'[n] = spent[n]
      BY <1>2, <1>5 DEF BrokerInv, BrokerTyped
    <2>3. Books'
      BY <1>1, <2>2 DEF BrokerInv, BrokerTyped, Books
    <2> QED BY <2>1, <2>3
  <1>6. CASE /\ Best.url > 0 /\ spent' = [spent EXCEPT ![broker.n] = Best.url]
             /\ broker' = [broker EXCEPT !.pc = "delivery"]
             /\ due' = due \cup {<<swarm!Cheapest.seller, broker.n, "delivered">>}
    <2>1. /\ broker' \in Process /\ broker'.pc = "delivery" /\ broker'.n = broker.n
          /\ broker'.quotes = broker.quotes
      BY <1>1, <1>6 DEF Process, Working
    <2>3. InRequest'
      BY <1>1, <1>2, <1>5, <1>6, <2>1 DEF InRequest
    <2>4. due' \subseteq SellerNames \X Asks \X {"quote", "delivered"}
      BY <1>1, <1>2, <1>4, <1>6
    <2>5. BrokerTyped'
      BY <1>1, <1>5, <1>6, <2>1, <2>4 DEF BrokerInv, BrokerTyped
    <2>6. ChargedInOrder'
      BY <1>1, <1>2, <2>1 DEF BrokerInv, ChargedInOrder
    <2> QED BY <1>5, <1>6, <2>3, <2>5, <2>6 DEF BrokerInv
  <1>7. CASE Best.url > 0 /\ spent' = [spent EXCEPT ![broker.n] = Best.url] /\ broker' = Idle /\ UNCHANGED due
    <2>1. broker' \in Process /\ broker'.pc = "idle"
      BY <1>7, EmptySeq DEF Idle, swarm!Idle, Process, BrokerConstants
    <2>2. InRequest' /\ ChargedInOrder'
      BY <1>1, <2>1 DEF BrokerInv, InRequest, ChargedInOrder, Working
    <2>3. BrokerTyped'
      BY <1>1, <1>5, <1>7, <2>1 DEF BrokerInv, BrokerTyped
    <2> QED BY <1>5, <1>7, <2>2, <2>3 DEF BrokerInv
  <1> QED BY <1>3, <1>4, <1>6, <1>7 DEF swarm!Buy, Idle, Best

LEMMA HearDeliveryKeeps == ASSUME BrokerConstants, BrokerInv, swarm!HearDelivery PROVE BrokerInv'
  <1>1. /\ broker.pc = "delivery" /\ UNCHANGED <<due, asks, charge, spent, earned, resold>>
        /\ broker \in Process /\ mentions' \in Seq(Message)
        /\ due \subseteq SellerNames \X Asks \X {"quote", "delivered"}
    BY Mentions DEF swarm!HearDelivery, swarm!OthersSame, BrokerInv, BrokerTyped
  <1>2. CASE UNCHANGED broker
    BY <1>1, <1>2, BrokerWaits
  <1>3. CASE broker' = Idle
    BY <1>1, <1>3, BackToIdle
  <1>4. CASE broker' = [broker EXCEPT !.pc = "resell"]
    <2>1. /\ broker' \in Process /\ broker'.pc = "resell" /\ broker'.n = broker.n
          /\ broker'.quotes = broker.quotes
      BY <1>1, <1>4 DEF Process, Working
    <2>2. InRequest'
      BY <1>1, <2>1 DEF BrokerInv, InRequest, swarm!Best, Working
    <2>3. charge[broker.n] = NoCharge
      BY <1>1 DEF BrokerInv, ChargedInOrder, Working
    <2> QED BY <1>1, <2>1, <2>2, <2>3, QuietStep
  <1> QED BY <1>2, <1>3, <1>4 DEF swarm!HearDelivery, Idle

LEMMA ResellKeeps == ASSUME BrokerConstants, BrokerInv, swarm!Resell PROVE BrokerInv'
  <1>1. /\ broker.pc = "resell" /\ UNCHANGED <<mentions, due, asks, spent, earned, resold>>
        /\ broker' = [broker EXCEPT !.pc = "proof"]
        /\ charge' = [charge EXCEPT ![broker.n] = [amount |-> swarm!Resale(Best.price),
                                                  thread |-> broker.thread, cost |-> Best.price]]
        /\ broker \in Process /\ broker.quotes # <<>> /\ spent[broker.n] > 0
    BY DEF swarm!Resell, Best, BrokerInv, BrokerTyped, InRequest
  <1>2. broker.n \in Asks /\ charge[broker.n] = NoCharge /\ broker.n = asks.taken
    BY <1>1 DEF BrokerInv, InRequest, ChargedInOrder, Working
  <1>3. Best.price \in Nat /\ Best.price > 0
    <2>1. Best \in Quotes
      BY <1>1, BestIsAQuote
    <2> QED BY <2>1 DEF BrokerConstants
  <1>4. swarm!Resale(Best.price) \in Nat
    BY <1>3, MarkupIsKept DEF BrokerConstants
  <1>5. broker' \in Process /\ broker'.pc = "proof" /\ broker'.n = broker.n
    BY <1>1 DEF Process, Working
  <1>6. /\ charge' \in [Asks -> [amount : Nat, thread : Lanes \cup {"none"}, cost : Nat]]
        /\ charge'[broker.n].amount = swarm!Resale(charge'[broker.n].cost)
        /\ charge'[broker.n] # NoCharge
        /\ \A n \in Asks : n # broker.n => charge'[n] = charge[n]
    BY <1>1, <1>2, <1>3, <1>4 DEF BrokerInv, BrokerTyped, Process, NoCharge, swarm!NoCharge
  <1>7. BrokerTyped'
    BY <1>1, <1>5, <1>6 DEF BrokerInv, BrokerTyped
  <1>8. InRequest'
    BY <1>1, <1>2, <1>5 DEF InRequest
  <1>9. ChargedInOrder'
    <2>1. asks.taken \in Nat
      BY DEF BrokerInv, BrokerTyped
    <2>2. \A n \in Asks : n > asks.taken => n # broker.n
      BY <1>2, <2>1 DEF Asks, swarm!Asks
    <2> QED BY <1>1, <1>5, <1>6, <2>2 DEF BrokerInv, ChargedInOrder
  <1>10. Books'
    <2>1. earned[broker.n] = Unpaid
      BY <1>2 DEF BrokerInv, Books, NoCharge, swarm!NoCharge
    <2>2. broker.n \notin resold
      BY <1>2 DEF BrokerInv, Books
    <2>3. resold \subseteq Asks
      BY DEF BrokerInv, BrokerTyped
    <2> QED BY <1>1, <1>6, <2>1, <2>2, <2>3 DEF BrokerInv, Books
  <1> QED BY <1>7, <1>8, <1>9, <1>10 DEF BrokerInv

LEMMA HearProofKeeps == ASSUME BrokerConstants, BrokerInv, swarm!HearProof PROVE BrokerInv'
  <1>1. /\ broker.pc = "proof" /\ UNCHANGED <<due, asks, charge, spent, earned>>
        /\ broker \in Process /\ mentions' \in Seq(Message)
        /\ due \subseteq SellerNames \X Asks \X {"quote", "delivered"}
    BY Mentions DEF swarm!HearProof, BrokerInv, BrokerTyped
  <1>2. broker.n \in Asks /\ charge[broker.n] # NoCharge
    BY <1>1 DEF BrokerInv, InRequest, ChargedInOrder, Working
  <1>3. CASE UNCHANGED <<broker, resold>>
    BY <1>1, <1>3, BrokerWaits
  <1>4. CASE broker' = Idle /\ UNCHANGED resold
    BY <1>1, <1>4, BackToIdle
  <1>5. CASE /\ swarm!Hears /\ swarm!verifyPayment(Head(mentions))
             /\ resold' = resold \cup {broker.n} /\ broker' = Idle
    <2>1. earned[broker.n] >= charge[broker.n].amount
      BY <1>5 DEF swarm!verifyPayment
    <2>2. charge[broker.n].amount \in Nat
      BY <1>2 DEF BrokerInv, BrokerTyped
    <2>3. earned[broker.n] = charge[broker.n].amount
      BY <1>2, <2>1, <2>2 DEF BrokerInv, Books, Unpaid, swarm!Unpaid
    <2>4. broker' \in Process /\ broker'.pc = "idle"
      BY <1>5, EmptySeq DEF Idle, swarm!Idle, Process, BrokerConstants
    <2>5. InRequest' /\ ChargedInOrder'
      BY <1>1, <2>4 DEF BrokerInv, InRequest, ChargedInOrder, Working
    <2>6. BrokerTyped'
      BY <1>1, <1>2, <1>5, <2>4 DEF BrokerInv, BrokerTyped
    <2>7. Books'
      BY <1>1, <1>2, <1>5, <2>3 DEF BrokerInv, Books
    <2> QED BY <2>5, <2>6, <2>7 DEF BrokerInv
  <1> QED BY <1>3, <1>4, <1>5 DEF swarm!HearProof, Idle

-----------------------------------------------------------------------------
\* The other agents, whatever they say.
LEMMA OthersKeep ==
  ASSUME BrokerConstants, BrokerInv,
         \/ \E t \in Threads : swarm!Request(t) \/ \E n \in Asks : swarm!PayCharge(t, n) \/ swarm!Bluff(t, n)
         \/ \E d \in due : swarm!SellerAnswers(d[1], d[2], d[3])
  PROVE  BrokerInv'
  <1>1. /\ due \subseteq SellerNames \X Asks \X {"quote", "delivered"}
        /\ Asks \subseteq 0 .. MaxAsks /\ 0 \in 0 .. MaxAsks
    BY DEF BrokerConstants, BrokerInv, BrokerTyped, Asks, swarm!Asks
  <1>2. ASSUME NEW t \in Threads, swarm!Request(t) PROVE BrokerInv'
    <2>1. [thread |-> t, kind |-> "request", n |-> 0, quote |-> NoQuote] \in Message
      BY <1>1 DEF Message, Lanes
    <2>2. mentions' \in Seq(Message)
      BY <1>2, <2>1, Mentions DEF swarm!Request, swarm!ToBroker, NoQuote, BrokerInv
    <2>3. /\ UNCHANGED <<broker, due, charge, spent, earned, resold>>
          /\ asks' \in [made : Nat, taken : 0 .. MaxAsks] /\ asks'.taken = asks.taken
      <3>1. asks \in [made : Nat, taken : 0 .. MaxAsks]
        BY DEF BrokerInv, BrokerTyped
      <3>2. asks' = [asks EXCEPT !.made = @ + 1] /\ UNCHANGED <<broker, due, charge, spent, earned, resold>>
        BY <1>2 DEF swarm!Request
      <3> QED BY <3>1, <3>2
    <2>4. BrokerTyped'
      BY <2>2, <2>3 DEF BrokerInv, BrokerTyped
    <2>5. InRequest'
      BY <2>3 DEF BrokerInv, InRequest, swarm!Best
    <2>6. ChargedInOrder' /\ Books'
      BY <2>3 DEF BrokerInv, ChargedInOrder, Books
    <2> QED BY <2>4, <2>5, <2>6 DEF BrokerInv
  <1>3. ASSUME NEW t \in Threads, NEW n \in Asks, swarm!PayCharge(t, n) PROVE BrokerInv'
    <2>1. [thread |-> t, kind |-> "paid", n |-> n, quote |-> NoQuote] \in Message
      BY <1>1 DEF Message, Lanes
    <2>2. mentions' \in Seq(Message)
      BY <1>3, <2>1, Mentions DEF swarm!PayCharge, swarm!ToBroker, NoQuote, BrokerInv
    <2>3. /\ UNCHANGED <<broker, due, asks, charge, spent, resold>>
          /\ earned[n] = Unpaid /\ earned' = [earned EXCEPT ![n] = charge[n].amount]
          /\ charge[n] # NoCharge
      <3>1. charge[n].thread = t /\ t \in Threads
        BY <1>3 DEF swarm!PayCharge
      <3>2. t # "none"
        BY DEF BrokerConstants
      <3> QED BY <1>3, <3>1, <3>2 DEF swarm!PayCharge, Unpaid, NoCharge, swarm!NoCharge
    <2>4. BrokerTyped'
      BY <2>2, <2>3 DEF BrokerInv, BrokerTyped
    <2>5. InRequest' /\ ChargedInOrder'
      BY <2>3 DEF BrokerInv, InRequest, swarm!Best, ChargedInOrder
    <2>6. Books'
      BY <2>3 DEF BrokerInv, BrokerTyped, Books
    <2> QED BY <2>4, <2>5, <2>6 DEF BrokerInv
  <1>4. ASSUME NEW t \in Threads, NEW n \in Asks, swarm!Bluff(t, n) PROVE BrokerInv'
    <2>1. [thread |-> t, kind |-> "paid", n |-> n, quote |-> NoQuote] \in Message
      BY <1>1 DEF Message, Lanes
    <2>2. mentions' \in Seq(Message)
      BY <1>4, <2>1, Mentions DEF swarm!Bluff, swarm!ToBroker, NoQuote, BrokerInv
    <2> QED BY <1>1, <1>4, <2>2, BrokerWaits DEF swarm!Bluff
  <1>5. ASSUME NEW d \in due, swarm!SellerAnswers(d[1], d[2], d[3]) PROVE BrokerInv'
    <2>1. d[1] \in SellerNames /\ d[2] \in Asks /\ d[3] \in {"quote", "delivered"} /\ <<d[1], d[2]>> \in Lanes
      BY <1>1 DEF Lanes
    <2>2. \A q \in Quotes : [thread |-> <<d[1], d[2]>>, kind |-> "quote", n |-> d[2], quote |-> q] \in Message
      BY <1>1, <2>1 DEF Message
    <2>3. \A k \in {"delivered", "error"} :
            [thread |-> <<d[1], d[2]>>, kind |-> k, n |-> d[2], quote |-> NoQuote] \in Message
      BY <1>1, <2>1 DEF Message
    <2>4. mentions' \in Seq(Message)
      BY <1>5, <2>2, <2>3, Mentions DEF swarm!SellerAnswers, swarm!ToBroker, NoQuote, BrokerInv
    <2>5. due' \subseteq due /\ UNCHANGED <<broker, asks, charge, spent, earned, resold>>
      BY <1>5 DEF swarm!SellerAnswers
    <2> QED BY <1>1, <2>4, <2>5, BrokerWaits
  <1> QED BY <1>2, <1>3, <1>4, <1>5

LEMMA CycleErrorKeeps == ASSUME BrokerConstants, BrokerInv, swarm!CycleError PROVE BrokerInv'
  <1>1. mentions' \in Seq(Message)
    BY EmptySeq DEF swarm!CycleError, BrokerInv, BrokerTyped
  <1> QED BY <1>1, BackToIdle DEF swarm!CycleError, swarm!OthersSame, Idle

LEMMA BrokerPreserved == ASSUME BrokerConstants, BrokerInv, [Next]_vars PROVE BrokerInv'
  <1>1. CASE Broker
    BY <1>1, TakeAskKeeps, AskNextKeeps, HearQuoteKeeps, BuyKeeps, HearDeliveryKeeps, ResellKeeps,
       HearProofKeeps, CycleErrorKeeps, OthersKeep
    DEF Broker, swarm!BrokerNext, swarm!BrokerStep, Asks
  <1>2. CASE UNCHANGED brokerVars
    BY <1>2 DEF brokerVars, BrokerInv, BrokerTyped, InRequest, ChargedInOrder, Books, swarm!Best
  <1> QED BY <1>1, <1>2 DEF Next, Quickstart, Bridge, Market, vars

\* What the broker resold it had bought, and was paid for with the charge of that
\* request, the markup on the price named; it charges only for data it holds.  For
\* any sellers, whatever the two figures of their quotes are, any buyers and any
\* number of requests (broker/src/index.ts).
THEOREM BrokerIsPaidItsMarkup == Spec => []ResalePaysTheMarkup
  <1>1. ASSUME BrokerConstants, BrokerInv PROVE ResalePaysTheMarkup
    <2>1. ASSUME NEW n \in resold
          PROVE  spent[n] > 0 /\ earned[n] = charge[n].amount /\ 100 * earned[n] >= Percent * charge[n].cost - 500
      <3>1. /\ n \in Asks /\ spent[n] > 0 /\ earned[n] = charge[n].amount
            /\ charge[n].amount = swarm!Resale(charge[n].cost) /\ charge[n].cost \in Nat
        BY <1>1, <2>1 DEF BrokerInv, BrokerTyped, Books
      <3> QED BY <1>1, <3>1, MarkupIsKept DEF BrokerConstants
    <2>2. \A n \in Asks : charge[n] # NoCharge => spent[n] > 0
      BY <1>1 DEF BrokerInv, Books
    <2> QED BY <2>1, <2>2 DEF ResalePaysTheMarkup, swarm!ResalePaysTheMarkup, swarm!ChargesForBoughtData,
                              Asks, NoCharge
  <1>2. Init => BrokerInv
    BY BrokerInitial, StarterKitAssumption
  <1>3. BrokerInv /\ [Next]_vars => BrokerInv'
    BY BrokerPreserved, Constants, StarterKitAssumption
  <1>4. BrokerInv => ResalePaysTheMarkup
    BY <1>1, Constants, StarterKitAssumption
  <1> QED BY <1>2, <1>3, <1>4, PTL DEF Spec
=============================================================================
