------------------------------- MODULE Escrow -------------------------------
(***************************************************************************)
(* The escrow program (programs/escrow/src/lib.rs): one account per        *)
(* (buyer, reference), created by `initialize`, closed by `release` (the   *)
(* seller is paid) or by `refund` (the buyer takes everything back, at or  *)
(* after the deadline).  An instruction is atomic: it applies as a whole   *)
(* or, when one of its checks fails, not at all, so a failed one is no     *)
(* step.                                                                   *)
(*                                                                         *)
(* The guards and the effects on the ledger are operators of their own, so *)
(* that a program that calls this one (Arbiter) applies the same handlers  *)
(* inside its own instruction.                                             *)
(***************************************************************************)
EXTENDS Integers, FiniteSets, Functions

CONSTANTS
  Accounts,        \* keys other than escrow addresses (wallets, vaults)
  References,      \* order references
  Sellers,         \* the payout destinations that are named: any keys at all
  Amounts,         \* amounts a buyer may ask to lock (u64, zero included)
  Deadlines,       \* unix timestamps a buyer may name (i64)
  Rent,            \* the rent-exempt minimum of an escrow account
  MaxLamports,     \* the largest u64
  InitialLamports, \* what each key holds at first
  LastTime,        \* bound of the clock
  NoEscrow         \* there is no account at this address

\* The address of an escrow is derived from the buyer and the reference.
Addresses == Accounts \X References

\* Every key that can hold lamports.  The seller of an escrow is an unchecked
\* account: it may be a vault, the address of an escrow, even that of its own.
Holders == Accounts \cup Addresses

ASSUME EscrowAssumption ==
  /\ Accounts \cap Addresses = {}
  /\ Sellers \subseteq Holders
  /\ Amounts \subseteq Nat
  /\ Deadlines \subseteq Int
  /\ Rent \in Nat
  /\ MaxLamports \in Nat
  /\ LastTime \in Int
  /\ InitialLamports \in [Holders -> Nat]

\* The whole supply of lamports fits a u64.  It is a sum over finitely many
\* accounts: an address and a reference are keys of 32 bytes.
ASSUME SupplyAssumption ==
  /\ IsFiniteSet(Accounts) /\ IsFiniteSet(References)
  /\ SumFunction(InitialLamports) <= MaxLamports

VARIABLES
  escrow,    \* the data of the escrow account at each address, or NoEscrow
  lamports,  \* the balance of every key, escrow addresses included
  now,       \* the cluster clock
  closed     \* history: whom the last account closed at each address named,
             \* and where its deposit went

escrowVars == <<escrow, lamports, now, closed>>

EscrowAccount == [seller: Sellers, amount: Nat, deadline: Int]

Settled == [payee: Sellers, place: {"paid", "returned"}]

\* An address without an account is told apart from every account and from
\* every order (the view of an address that Settlement has, below).
ASSUME NoEscrowAssumption ==
  /\ NoEscrow \notin EscrowAccount
  /\ NoEscrow \notin [payee: Sellers,
                     place: {"open", "matured", "paid", "returned"}]

TypeOK ==
  /\ escrow \in [Addresses -> EscrowAccount \cup {NoEscrow}]
  /\ lamports \in [Holders -> Nat]
  /\ now \in Int
  /\ closed \in [Addresses -> Settled \cup {NoEscrow}]

IsOpen(k) == escrow[k] # NoEscrow

Init ==
  /\ escrow = [k \in Addresses |-> NoEscrow]
  /\ lamports = InitialLamports
  /\ now = 0
  /\ closed = [k \in Addresses |-> NoEscrow]
-----------------------------------------------------------------------------
(***************************************************************************)
(* The three handlers: what each checks and what each does.                *)
(***************************************************************************)

\* Lamports go from one key to another, which may be the same.
Transfer(ledger, from, to, n) ==
  LET taken == [ledger EXCEPT ![from] = @ - n]
  IN  [taken EXCEPT ![to] = @ + n]

\* `init` adds what the address lacks to be exempt from rent.
Topup(ledger, k) == IF ledger[k] >= Rent THEN 0 ELSE Rent - ledger[k]

\* A variant that does not check the deadline.
CanInitializeExpired(ledger, k, amount, deadline) ==
  amount > 0 /\ ~ IsOpen(k) /\ ledger[k[1]] >= Topup(ledger, k) + amount

\* The buyer's balance in `ledger` must cover the rent of the new account and
\* the deposit.  `init` fails when the account is there already.
CanInitialize(ledger, k, amount, deadline) ==
  /\ amount > 0
  /\ deadline > now
  /\ ~ IsOpen(k)
  /\ ledger[k[1]] >= Topup(ledger, k) + amount

Initialized(ledger, k, amount) ==
  Transfer(ledger, k[1], k, Topup(ledger, k) + amount)

CreateEscrow(k, seller, amount, deadline) ==
  /\ escrow' = [escrow EXCEPT ![k] =
                  [seller |-> seller, amount |-> amount, deadline |-> deadline]]
  /\ UNCHANGED closed

\* release takes the amount out of the account, then adds it to the seller's.
CanRelease(k, seller) ==
  LET taken == [lamports EXCEPT ![k] = @ - escrow[k].amount] IN
  /\ IsOpen(k)
  /\ escrow[k].seller = seller
  /\ lamports[k] >= escrow[k].amount
  /\ taken[seller] + escrow[k].amount <= MaxLamports

\* A variant that forgets to debit the account.
ReleasedUndebited(k) ==
  LET paid == [lamports EXCEPT ![escrow[k].seller] = @ + escrow[k].amount]
  IN  Transfer(paid, k, k[1], paid[k])

\* The seller is paid the amount; closing the account gives all that is left
\* in it to the buyer.
Released(k) ==
  LET paid == Transfer(lamports, k, escrow[k].seller, escrow[k].amount)
  IN  Transfer(paid, k, k[1], paid[k])

\* A variant without the check of the deadline.
CanRefundEarly(k) == IsOpen(k)

CanRefund(k) == IsOpen(k) /\ now >= escrow[k].deadline

Refunded(k) == Transfer(lamports, k, k[1], lamports[k])

CloseEscrow(k, place) ==
  /\ escrow' = [escrow EXCEPT ![k] = NoEscrow]
  /\ closed' = [closed EXCEPT ![k] = [payee |-> escrow[k].seller,
                                     place |-> place]]
-----------------------------------------------------------------------------
(***************************************************************************)
(* The instructions, signed by the buyer.                                  *)
(***************************************************************************)
Initialize(buyer, seller, reference, amount, deadline) ==
  LET k == <<buyer, reference>> IN
  /\ CanInitialize(lamports, k, amount, deadline)
  /\ CreateEscrow(k, seller, amount, deadline)
  /\ lamports' = Initialized(lamports, k, amount)
  /\ UNCHANGED now

Release(buyer, seller, reference) ==
  LET k == <<buyer, reference>> IN
  /\ CanRelease(k, seller)
  /\ CloseEscrow(k, "paid")
  /\ lamports' = Released(k)
  /\ UNCHANGED now

Refund(buyer, reference) ==
  LET k == <<buyer, reference>> IN
  /\ CanRefund(k)
  /\ CloseEscrow(k, "returned")
  /\ lamports' = Refunded(k)
  /\ UNCHANGED now

Tick ==
  /\ now < LastTime
  /\ now' = now + 1
  /\ UNCHANGED <<escrow, lamports, closed>>

\* The instructions one account can sign.
Instruction(buyer) ==
  \E reference \in References :
    \/ \E seller \in Sellers, amount \in Amounts, deadline \in Deadlines :
         Initialize(buyer, seller, reference, amount, deadline)
    \/ \E seller \in Sellers : Release(buyer, seller, reference)
    \/ Refund(buyer, reference)

Next == Tick \/ \E buyer \in Accounts : Instruction(buyer)

Spec == Init /\ [][Next]_escrowVars
-----------------------------------------------------------------------------
(***************************************************************************)
(* Properties.                                                             *)
(***************************************************************************)

\* In this step each key gains what `gain` says, nothing for most.
Gains(gain(_)) == \A a \in Holders : lamports'[a] = lamports[a] + gain(a)

\* No instruction creates or destroys a lamport, whoever the keys are that it
\* names; so the buyer of a live escrow can always pay its seller: neither
\* checked_sub nor checked_add of release fails (lib.rs:73-85).
LamportsConserved ==
  /\ SumFunction(lamports) = SumFunction(InitialLamports)
  /\ \A k \in Addresses : IsOpen(k) => CanRelease(k, escrow[k].seller)

\* In this step the account at k leaves whole: either the seller named at the
\* deposit gets the deposit and the buyer the rest, which covers the rent, or the
\* deadline has passed and the buyer gets everything.  Nothing stays at the
\* address and nobody else gains or loses a lamport.  A seller that is the
\* escrow's own address is paid nothing: what is paid to it is in the account
\* when it is closed.
LeavesWhole(k) ==
  LET held        == lamports[k]
      paid        == IF escrow[k].seller = k THEN 0 ELSE escrow[k].amount
      Leaving(a)  == IF a = k THEN - held ELSE 0
      Payout(a)   == (IF a = escrow[k].seller THEN paid ELSE 0)
                     + (IF a = k[1] THEN held - paid ELSE 0) + Leaving(a)
      GiveBack(a) == (IF a = k[1] THEN held ELSE 0) + Leaving(a)
  IN
  /\ held >= Rent + escrow[k].amount
  /\ \/ Gains(Payout)
     \/ now >= escrow[k].deadline /\ Gains(GiveBack)

(***************************************************************************)
(* The program implements Settlement: an order is an address, and its      *)
(* money has matured once the clock has reached the deadline.              *)
(***************************************************************************)
OrderView(k) ==
  IF IsOpen(k)
  THEN [payee |-> escrow[k].seller,
        place |-> IF now >= escrow[k].deadline THEN "matured" ELSE "open"]
  ELSE closed[k]

AbstractSettlement ==
  INSTANCE Settlement WITH
    Orders <- Addresses, Payees <- Sellers, NoOrder <- NoEscrow,
    order <- [k \in Addresses |-> OrderView(k)]

\* Each deposit is settled once: paid to the seller named when it was made, or
\* returned after the deadline.  The header of the program promises this.
ImplementsSettlement == AbstractSettlement!Spec
=============================================================================
