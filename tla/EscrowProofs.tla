---------------------------- MODULE EscrowProofs ----------------------------
(***************************************************************************)
(* Proofs about the escrow program, for any accounts, references, sellers  *)
(* (of whatever kind of key), amounts, deadlines and rent.                 *)
(***************************************************************************)
EXTENDS Escrow, FoldLemmas, TLAPS

\* A live escrow has at least its rent and its deposit; it has more when others
\* have sent to its address.
Backed ==
  \A k \in Addresses : IsOpen(k) => lamports[k] >= Rent + escrow[k].amount

\* The inductive invariant: release subtracts the amount from what the account
\* holds, so that balances stay natural numbers needs Backed.
Inv == TypeOK /\ Backed

LEMMA AddressFacts ==
  ASSUME NEW k \in Addresses
  PROVE  k \in Holders /\ k[1] \in Accounts /\ k[1] \in Holders /\ k[1] # k
BY EscrowAssumption DEF Holders, Addresses

LEMMA HoldersFinite == IsFiniteSet(Holders)
<1>1. IsFiniteSet(Addresses)
  BY SupplyAssumption, FS_Product DEF Addresses
<1>. QED
  BY <1>1, SupplyAssumption, FS_Union DEF Holders
-----------------------------------------------------------------------------
(***************************************************************************)
(* The ledger.  Whatever an instruction does, it does by transfers, and a  *)
(* transfer that is covered keeps the ledger and its sum, also one of a    *)
(* key to itself.                                                          *)
(***************************************************************************)
LEMMA OneChanges ==
  ASSUME NEW f \in [Holders -> Nat], NEW e \in [Holders -> Nat], NEW x \in Holders,
         \A a \in Holders \ {x} : e[a] = f[a]
  PROVE  SumFunction(e) = SumFunction(f) + (e[x] - f[x]) /\ SumFunction(f) \in Int
BY HoldersFinite, SumChange DEF SumFunction

LEMMA Transferred ==
  ASSUME NEW f \in [Holders -> Nat], NEW x \in Holders, NEW y \in Holders,
         NEW n \in Nat, f[x] >= n
  PROVE  /\ Transfer(f, x, y, n) \in [Holders -> Nat]
         /\ SumFunction(Transfer(f, x, y, n)) = SumFunction(f)
         /\ \A a \in Holders :
              Transfer(f, x, y, n)[a] =
                f[a] + ((IF a = x THEN - n ELSE 0) + (IF a = y THEN n ELSE 0))
<1>1. PICK g : g = [f EXCEPT ![x] = f[x] - n]
  OBVIOUS
<1>2. PICK h : h = [g EXCEPT ![y] = g[y] + n]
  OBVIOUS
<1>3. Transfer(f, x, y, n) = h
  BY <1>1, <1>2 DEF Transfer
<1>4. f[x] \in Nat /\ f[x] - n \in Nat
  OBVIOUS
<1>5. /\ g \in [Holders -> Nat] /\ g[x] = f[x] - n
      /\ \A a \in Holders \ {x} : g[a] = f[a]
  BY <1>1, <1>4
<1>6. g[y] \in Nat
  BY <1>5
<1>7. /\ h \in [Holders -> Nat] /\ h[y] = g[y] + n
      /\ \A a \in Holders \ {y} : h[a] = g[a]
  BY <1>2, <1>5, <1>6
<1>8. SumFunction(g) = SumFunction(f) + (g[x] - f[x]) /\ SumFunction(f) \in Int
  BY <1>5, OneChanges
<1>9. SumFunction(h) = SumFunction(g) + (h[y] - g[y])
  BY <1>5, <1>7, OneChanges
<1>10. SumFunction(h) = SumFunction(f)
  BY <1>4, <1>5, <1>6, <1>7, <1>8, <1>9
<1>11. \A a \in Holders : f[a] \in Nat /\ g[a] \in Nat
  BY <1>5
<1>12. \A a \in Holders :
         h[a] = f[a] + ((IF a = x THEN - n ELSE 0) + (IF a = y THEN n ELSE 0))
  BY <1>4, <1>5, <1>7, <1>11
<1>. QED
  BY <1>3, <1>7, <1>10, <1>12

LEMMA TopupNat ==
  ASSUME NEW f \in [Holders -> Nat], NEW k \in Addresses
  PROVE  /\ Topup(f, k) \in Nat /\ Topup(f, k) <= Rent
         /\ f[k] + Topup(f, k) >= Rent
<1>1. f[k] \in Nat /\ Rent \in Nat
  BY AddressFacts, EscrowAssumption
<1>. QED
  BY <1>1 DEF Topup

\* What `initialize` leaves: the buyer has paid, the account has its rent and
\* the deposit.
LEMMA InitializedLedger ==
  ASSUME NEW f \in [Holders -> Nat], NEW k \in Addresses, NEW amount \in Nat,
         f[k[1]] >= Topup(f, k) + amount
  PROVE  /\ Initialized(f, k, amount) \in [Holders -> Nat]
         /\ SumFunction(Initialized(f, k, amount)) = SumFunction(f)
         /\ Initialized(f, k, amount)[k] >= Rent + amount
         /\ Initialized(f, k, amount)[k[1]] = f[k[1]] - (Topup(f, k) + amount)
         /\ \A a \in Holders \ {k, k[1]} : Initialized(f, k, amount)[a] = f[a]
<1>1. PICK n, e : n = Topup(f, k) + amount /\ e = Initialized(f, k, amount)
  OBVIOUS
<1>2. /\ n \in Nat /\ f[k[1]] >= n /\ f[k] + n >= Rent + amount
      /\ f[k] \in Nat /\ f[k[1]] \in Nat
      /\ k \in Holders /\ k[1] \in Holders /\ k[1] # k
  BY <1>1, TopupNat, AddressFacts, EscrowAssumption
<1>3. /\ e \in [Holders -> Nat] /\ SumFunction(e) = SumFunction(f)
      /\ \A a \in Holders :
           e[a] = f[a] + ((IF a = k[1] THEN - n ELSE 0) + (IF a = k THEN n ELSE 0))
  BY <1>1, <1>2, Transferred DEF Initialized
<1>4. e[k] = f[k] + n /\ e[k[1]] = f[k[1]] - n
  BY <1>2, <1>3
<1>5. \A a \in Holders \ {k, k[1]} : f[a] \in Nat /\ e[a] = f[a]
  BY <1>3
<1>. QED
  BY <1>1, <1>2, <1>3, <1>4, <1>5

\* A live account names one of the sellers and holds deposit and rent.
LEMMA OpenAccount ==
  ASSUME TypeOK, NEW k \in Addresses, IsOpen(k)
  PROVE  /\ escrow[k] \in EscrowAccount
         /\ escrow[k].seller \in Sellers
         /\ escrow[k].seller \in Holders
         /\ escrow[k].amount \in Nat
         /\ escrow[k].deadline \in Int
BY EscrowAssumption DEF TypeOK, IsOpen, EscrowAccount

\* What a seller is paid by a release: nothing that stays, if it is the escrow.
PaidOut(k) == IF escrow[k].seller = k THEN 0 ELSE escrow[k].amount

LEMMA ReleasedLedger ==
  ASSUME Inv, NEW k \in Addresses, IsOpen(k)
  PROVE  /\ Released(k) \in [Holders -> Nat]
         /\ SumFunction(Released(k)) = SumFunction(lamports)
         /\ \A a \in Holders :
              Released(k)[a] =
                lamports[a]
                + (((IF a = escrow[k].seller THEN PaidOut(k) ELSE 0)
                    + (IF a = k[1] THEN lamports[k] - PaidOut(k) ELSE 0))
                   + (IF a = k THEN - lamports[k] ELSE 0))
         /\ \A a \in Holders \ {k} : Released(k)[a] >= lamports[a]
<1>1. PICK m, s, b, f : m = escrow[k].amount /\ s = escrow[k].seller /\ b = k[1] /\ f = lamports
  OBVIOUS
<1>2. /\ m \in Nat /\ s \in Holders /\ b \in Holders /\ k \in Holders /\ b # k
      /\ f \in [Holders -> Nat] /\ Rent \in Nat /\ f[k] >= Rent + m
  BY <1>1, OpenAccount, AddressFacts, EscrowAssumption DEF Inv, TypeOK, Backed
<1>3. PICK g, h : g = Transfer(f, k, s, m) /\ h = Transfer(g, k, b, g[k])
  OBVIOUS
<1>4. Released(k) = h
  BY <1>1, <1>3 DEF Released
<1>5. f[k] \in Nat /\ f[k] >= m
  BY <1>2
<1>6. /\ g \in [Holders -> Nat] /\ SumFunction(g) = SumFunction(f)
      /\ \A a \in Holders :
           g[a] = f[a] + ((IF a = k THEN - m ELSE 0) + (IF a = s THEN m ELSE 0))
  <2>1. /\ Transfer(f, k, s, m) \in [Holders -> Nat]
        /\ SumFunction(Transfer(f, k, s, m)) = SumFunction(f)
        /\ \A a \in Holders :
             Transfer(f, k, s, m)[a] =
               f[a] + ((IF a = k THEN - m ELSE 0) + (IF a = s THEN m ELSE 0))
    BY <1>2, <1>5, Transferred
  <2>. QED
    BY <2>1, <1>3
<1>7. PICK p : p = PaidOut(k)
  OBVIOUS
<1>8. /\ p \in Nat /\ f[k] >= p /\ g[k] = f[k] - p
      /\ \A a \in Holders \ {k} : g[a] = f[a] + (IF a = s THEN p ELSE 0)
  <2>1. \A a \in Holders : f[a] \in Nat
    BY <1>2
  <2>2. p = IF s = k THEN 0 ELSE m
    BY <1>1, <1>7 DEF PaidOut
  <2>. QED
    BY <1>2, <1>5, <1>6, <2>1, <2>2
<1>9. g[k] \in Nat
  BY <1>2, <1>6
<1>10. /\ h \in [Holders -> Nat] /\ SumFunction(h) = SumFunction(g)
       /\ \A a \in Holders :
            h[a] = g[a] + ((IF a = k THEN - g[k] ELSE 0) + (IF a = b THEN g[k] ELSE 0))
  <2>1. PICK n : n = g[k]
    OBVIOUS
  <2>2. n \in Nat /\ g[k] >= n /\ g \in [Holders -> Nat] /\ k \in Holders /\ b \in Holders
    BY <1>2, <1>6, <1>9, <2>1
  <2>3. /\ Transfer(g, k, b, n) \in [Holders -> Nat]
        /\ SumFunction(Transfer(g, k, b, n)) = SumFunction(g)
        /\ \A a \in Holders :
             Transfer(g, k, b, n)[a] =
               g[a] + ((IF a = k THEN - n ELSE 0) + (IF a = b THEN n ELSE 0))
    BY <2>2, Transferred
  <2>. QED
    BY <2>1, <2>3, <1>3
<1>11. \A a \in Holders : f[a] \in Nat /\ g[a] \in Nat
  BY <1>2, <1>6
<1>12. h[k] = 0
  BY <1>2, <1>9, <1>10
<1>13. \A a \in Holders \ {k} :
         h[a] = f[a] + ((IF a = s THEN p ELSE 0) + (IF a = b THEN f[k] - p ELSE 0))
  BY <1>2, <1>5, <1>8, <1>10, <1>11
<1>14. \A a \in Holders \ {k} : h[a] >= f[a]
  BY <1>5, <1>8, <1>11, <1>13
<1>15. s = k => p = 0
  BY <1>1, <1>7 DEF PaidOut
<1>16. \A a \in Holders :
         h[a] = f[a] + (((IF a = s THEN p ELSE 0) + (IF a = b THEN f[k] - p ELSE 0))
                        + (IF a = k THEN - f[k] ELSE 0))
  <2>1. ASSUME NEW a \in Holders, a # k
        PROVE  h[a] = f[a] + (((IF a = s THEN p ELSE 0) + (IF a = b THEN f[k] - p ELSE 0))
                              + (IF a = k THEN - f[k] ELSE 0))
    BY <2>1, <1>5, <1>8, <1>11, <1>13
  <2>2. h[k] = f[k] + (((IF k = s THEN p ELSE 0) + (IF k = b THEN f[k] - p ELSE 0))
                       + (IF k = k THEN - f[k] ELSE 0))
    BY <1>2, <1>5, <1>8, <1>12, <1>15
  <2>. QED
    BY <2>1, <2>2
<1>. QED
  BY <1>1, <1>4, <1>6, <1>7, <1>10, <1>14, <1>16

LEMMA RefundedLedger ==
  ASSUME Inv, NEW k \in Addresses, IsOpen(k)
  PROVE  /\ Refunded(k) \in [Holders -> Nat]
         /\ SumFunction(Refunded(k)) = SumFunction(lamports)
         /\ \A a \in Holders :
              Refunded(k)[a] =
                lamports[a] + ((IF a = k[1] THEN lamports[k] ELSE 0)
                               + (IF a = k THEN - lamports[k] ELSE 0))
         /\ \A a \in Holders \ {k} : Refunded(k)[a] >= lamports[a]
<1>1. PICK b, f, h : b = k[1] /\ f = lamports /\ h = Refunded(k)
  OBVIOUS
<1>2. /\ b \in Holders /\ k \in Holders /\ b # k
      /\ f \in [Holders -> Nat] /\ f[k] \in Nat /\ f[k] >= f[k]
  BY <1>1, AddressFacts DEF Inv, TypeOK
<1>3. /\ h \in [Holders -> Nat] /\ SumFunction(h) = SumFunction(f)
      /\ \A a \in Holders :
           h[a] = f[a] + ((IF a = k THEN - f[k] ELSE 0) + (IF a = b THEN f[k] ELSE 0))
  BY <1>1, <1>2, Transferred DEF Refunded
<1>4. \A a \in Holders : f[a] \in Nat
  BY <1>2
<1>. QED
  BY <1>1, <1>2, <1>3, <1>4
-----------------------------------------------------------------------------
\* The handlers keep the accounts well formed and backed, whoever calls them
\* and whatever else their transaction does.
LEMMA CreateKeepsInv ==
  ASSUME Inv, NEW k \in Addresses, NEW seller \in Sellers, NEW amount \in Nat,
         NEW deadline \in Int, CreateEscrow(k, seller, amount, deadline),
         lamports' \in [Holders -> Nat], now' \in Int,
         lamports'[k] >= Rent + amount,
         \A j \in Addresses \ {k} : lamports'[j] >= lamports[j]
  PROVE  Inv'
<1>1. PICK a : a = [seller |-> seller, amount |-> amount, deadline |-> deadline]
  OBVIOUS
<1>2. a \in EscrowAccount /\ a.amount = amount
  BY <1>1 DEF EscrowAccount
<1>3. /\ escrow' = [escrow EXCEPT ![k] = a] /\ escrow'[k] = a
      /\ \A j \in Addresses \ {k} : escrow'[j] = escrow[j]
      /\ closed' = closed
  BY <1>1 DEF CreateEscrow, Inv, TypeOK
<1>4. TypeOK'
  BY <1>2, <1>3 DEF Inv, TypeOK
<1>5. ASSUME NEW j \in Addresses, IsOpen(j)'
      PROVE  lamports'[j] >= Rent + escrow'[j].amount
  <2>1. CASE j = k
    BY <2>1, <1>2, <1>3
  <2>2. CASE j # k
    <3>1. lamports[j] >= Rent + escrow[j].amount /\ escrow[j].amount \in Nat
      BY <2>2, <1>3, <1>5, OpenAccount DEF Inv, Backed, IsOpen
    <3>2. lamports[j] \in Nat /\ lamports'[j] \in Nat /\ Rent \in Nat
      BY AddressFacts, EscrowAssumption DEF Inv, TypeOK
    <3>. QED
      BY <2>2, <3>1, <3>2, <1>3
  <2>. QED
    BY <2>1, <2>2
<1>. QED
  BY <1>4, <1>5 DEF Inv, Backed

LEMMA CloseKeepsInv ==
  ASSUME Inv, NEW k \in Addresses, IsOpen(k), NEW place \in {"paid", "returned"},
         CloseEscrow(k, place), lamports' \in [Holders -> Nat], now' \in Int,
         \A j \in Addresses \ {k} : lamports'[j] >= lamports[j]
  PROVE  Inv'
<1>1. [payee |-> escrow[k].seller, place |-> place] \in Settled
  BY OpenAccount DEF Settled, Inv
<1>2. /\ escrow'[k] = NoEscrow
      /\ \A j \in Addresses \ {k} : escrow'[j] = escrow[j]
  BY DEF CloseEscrow, Inv, TypeOK
<1>3. TypeOK'
  BY <1>1 DEF Inv, TypeOK, CloseEscrow
<1>4. ASSUME NEW j \in Addresses, IsOpen(j)'
      PROVE  lamports'[j] >= Rent + escrow'[j].amount
  <2>1. j # k /\ escrow'[j] = escrow[j] /\ IsOpen(j)
    BY <1>2, <1>4 DEF IsOpen
  <2>2. lamports[j] >= Rent + escrow[j].amount /\ escrow[j].amount \in Nat
    BY <2>1, OpenAccount DEF Inv, Backed
  <2>3. lamports[j] \in Nat /\ lamports'[j] \in Nat /\ Rent \in Nat
    BY AddressFacts, EscrowAssumption DEF Inv, TypeOK
  <2>. QED
    BY <2>1, <2>2, <2>3
<1>. QED
  BY <1>3, <1>4 DEF Inv, Backed

\* What an instruction keeps: the invariant, and the sum of the ledger.
Balanced == SumFunction(lamports) = SumFunction(InitialLamports)
SumKept == SumFunction(lamports') = SumFunction(lamports)

LEMMA ReleaseKeeps ==
  ASSUME Inv, NEW k \in Addresses, IsOpen(k), CloseEscrow(k, "paid"),
         lamports' = Released(k), now' = now
  PROVE  Inv' /\ SumKept
<1>1. /\ lamports' \in [Holders -> Nat] /\ SumKept
      /\ \A j \in Addresses \ {k} : lamports'[j] >= lamports[j]
  BY ReleasedLedger, AddressFacts DEF SumKept
<1>. QED
  BY <1>1, CloseKeepsInv DEF Inv, TypeOK

LEMMA RefundKeeps ==
  ASSUME Inv, NEW k \in Addresses, IsOpen(k), CloseEscrow(k, "returned"),
         lamports' = Refunded(k), now' = now
  PROVE  Inv' /\ SumKept
<1>1. /\ lamports' \in [Holders -> Nat] /\ SumKept
      /\ \A j \in Addresses \ {k} : lamports'[j] >= lamports[j]
  BY RefundedLedger, AddressFacts DEF SumKept
<1>. QED
  BY <1>1, CloseKeepsInv DEF Inv, TypeOK

\* An escrow is made by a buyer who starts from the ledger `f`, which differs
\* from the present one at most at that buyer (and at who funds it).
LEMMA InitializeKeeps ==
  ASSUME Inv, NEW f \in [Holders -> Nat], NEW k \in Addresses, NEW seller \in Sellers,
         NEW amount \in Nat, NEW deadline \in Int,
         \A j \in Addresses : f[j] = lamports[j],
         CanInitialize(f, k, amount, deadline),
         CreateEscrow(k, seller, amount, deadline),
         lamports' = Initialized(f, k, amount), now' = now
  PROVE  Inv' /\ SumFunction(lamports') = SumFunction(f)
<1>1. /\ lamports' \in [Holders -> Nat] /\ SumFunction(lamports') = SumFunction(f)
      /\ lamports'[k] >= Rent + amount
      /\ \A a \in Holders \ {k, k[1]} : lamports'[a] = f[a]
  BY InitializedLedger DEF CanInitialize
<1>2. ASSUME NEW j \in Addresses \ {k}
      PROVE  lamports'[j] >= lamports[j]
  <2>1. j \in Holders /\ j # k[1] /\ f[j] \in Nat /\ f[j] = lamports[j]
    BY AddressFacts, EscrowAssumption
  <2>. QED
    BY <2>1, <1>1
<1>. QED
  BY <1>1, <1>2, CreateKeepsInv DEF Inv, TypeOK

LEMMA InstructionKeeps ==
  ASSUME Inv, NEW buyer \in Accounts, Instruction(buyer)
  PROVE  Inv' /\ SumKept
<1>1. ASSUME NEW reference \in References, NEW seller \in Sellers,
             NEW amount \in Amounts, NEW deadline \in Deadlines,
             Initialize(buyer, seller, reference, amount, deadline)
      PROVE  Inv' /\ SumKept
  <2>1. PICK k : k = <<buyer, reference>>
    OBVIOUS
  <2>2. /\ k \in Addresses /\ amount \in Nat /\ deadline \in Int
        /\ lamports \in [Holders -> Nat]
        /\ CanInitialize(lamports, k, amount, deadline)
        /\ CreateEscrow(k, seller, amount, deadline)
        /\ lamports' = Initialized(lamports, k, amount)
        /\ now' = now
    BY <1>1, <2>1, EscrowAssumption DEF Initialize, Addresses, Inv, TypeOK
  <2>. QED
    BY <2>2, InitializeKeeps DEF SumKept
<1>2. ASSUME NEW reference \in References, NEW seller \in Sellers,
             Release(buyer, seller, reference)
      PROVE  Inv' /\ SumKept
  BY <1>2, ReleaseKeeps DEF Release, CanRelease, Addresses
<1>3. ASSUME NEW reference \in References, Refund(buyer, reference)
      PROVE  Inv' /\ SumKept
  BY <1>3, RefundKeeps DEF Refund, CanRefund, Addresses
<1>. QED
  BY <1>1, <1>2, <1>3 DEF Instruction

LEMMA IdleKeeps ==
  ASSUME Inv, Tick \/ UNCHANGED escrowVars
  PROVE  Inv' /\ SumKept
BY DEF Inv, Tick, escrowVars, TypeOK, Backed, IsOpen, SumKept

LEMMA InitInv == Init => Inv /\ Balanced
BY EscrowAssumption DEF Init, Inv, TypeOK, Backed, IsOpen, Balanced

LEMMA NextKeeps == Inv /\ [Next]_escrowVars => Inv' /\ SumKept
BY InstructionKeeps, IdleKeeps DEF Next

LEMMA Invariance == Spec => [](Inv /\ Balanced)
<1>1. Inv /\ Balanced /\ [Next]_escrowVars => Inv' /\ Balanced'
  BY NextKeeps DEF Balanced, SumKept
<1>. QED
  BY InitInv, <1>1, PTL DEF Spec

\* The escrow program keeps its state well typed; in particular no balance
\* ever becomes negative.
THEOREM EscrowTypeCorrect == Spec => []TypeOK
<1>1. Inv => TypeOK
  BY DEF Inv
<1>. QED
  BY Invariance, <1>1, PTL

\* When the books balance no account can be too rich to be paid: what a seller
\* has after a release is part of the supply.
LEMMA BalancedPays ==
  ASSUME Inv, Balanced, NEW k \in Addresses, IsOpen(k)
  PROVE  CanRelease(k, escrow[k].seller)
<1>1. PICK s, m, e : s = escrow[k].seller /\ m = escrow[k].amount /\ e = Transfer(lamports, k, s, m)
  OBVIOUS
<1>2. /\ s \in Holders /\ m \in Nat /\ Rent \in Nat /\ MaxLamports \in Nat /\ k \in Holders
      /\ lamports \in [Holders -> Nat] /\ lamports[k] >= Rent + m
  BY <1>1, OpenAccount, AddressFacts, EscrowAssumption DEF Inv, TypeOK, Backed
<1>3. lamports[k] \in Nat /\ lamports[k] >= m
  BY <1>2
<1>4. e \in [Holders -> Nat] /\ SumFunction(e) = SumFunction(lamports)
  BY <1>1, <1>2, <1>3, Transferred
<1>5. SumFunction(e) \in Nat /\ e[s] <= SumFunction(e)
  BY <1>2, <1>4, HoldersFinite, SumNat DEF SumFunction
<1>6. SumFunction(e) <= MaxLamports
  BY <1>4, SupplyAssumption DEF Balanced
<1>7. e[s] <= MaxLamports
  BY <1>2, <1>4, <1>5, <1>6
<1>8. e[s] = [lamports EXCEPT ![k] = lamports[k] - m][s] + m
  BY <1>1, <1>2 DEF Transfer
<1>. QED
  BY <1>1, <1>3, <1>7, <1>8 DEF CanRelease

\* No instruction creates or destroys a lamport, and so the balance of the
\* seller of a live escrow has room for the deposit: its release never fails.
THEOREM LamportsAreConserved == Spec => []LamportsConserved
<1>1. Inv /\ Balanced => LamportsConserved
  BY BalancedPays DEF LamportsConserved, Balanced
<1>. QED
  BY Invariance, <1>1, PTL

-----------------------------------------------------------------------------
(***************************************************************************)
(* How an account is closed.  The lemma names the two ways; both theorems  *)
(* that follow rest on it.                                                 *)
(***************************************************************************)
LEMMA StepCases ==
  ASSUME Inv, [Next]_escrowVars,
         NEW k \in Addresses, IsOpen(k)
  PROVE  \/ escrow'[k] = escrow[k]
         \/ /\ CanRelease(k, escrow[k].seller)
            /\ CloseEscrow(k, "paid")
            /\ lamports' = Released(k)
            /\ now' = now
         \/ /\ CanRefund(k)
            /\ CloseEscrow(k, "returned")
            /\ lamports' = Refunded(k)
            /\ now' = now
<1>. USE DEF Inv, TypeOK
<1>1. ASSUME NEW buyer \in Accounts, NEW reference \in References,
             NEW seller \in Sellers, NEW amount \in Amounts,
             NEW deadline \in Deadlines,
             Initialize(buyer, seller, reference, amount, deadline)
      PROVE  escrow'[k] = escrow[k]
  BY <1>1 DEF Initialize, CanInitialize, CreateEscrow
<1>2. ASSUME NEW buyer \in Accounts, NEW reference \in References,
             NEW seller \in Sellers, Release(buyer, seller, reference),
             escrow'[k] # escrow[k]
      PROVE  /\ CanRelease(k, escrow[k].seller)
             /\ CloseEscrow(k, "paid")
             /\ lamports' = Released(k)
             /\ now' = now
  <2>1. k = <<buyer, reference>>
    BY <1>2 DEF Release, CloseEscrow
  <2>. QED
    BY <2>1, <1>2 DEF Release, CanRelease
<1>3. ASSUME NEW buyer \in Accounts, NEW reference \in References,
             Refund(buyer, reference), escrow'[k] # escrow[k]
      PROVE  /\ CanRefund(k)
             /\ CloseEscrow(k, "returned")
             /\ lamports' = Refunded(k)
             /\ now' = now
  <2>1. k = <<buyer, reference>>
    BY <1>3 DEF Refund, CloseEscrow
  <2>. QED
    BY <2>1, <1>3 DEF Refund
<1>4. CASE Tick
  BY <1>4 DEF Tick
<1>5. CASE UNCHANGED escrowVars
  BY <1>5 DEF escrowVars
<1>. QED
  BY <1>1, <1>2, <1>3, <1>4, <1>5 DEF Next, Instruction

\* The two ledgers that closing an account leaves, in the terms of the property.
LEMMA ClosingLeavesWhole ==
  ASSUME Inv, [Next]_escrowVars,
         NEW k \in Addresses, IsOpen(k), ~ IsOpen(k)'
  PROVE  /\ lamports[k] >= Rent + escrow[k].amount
         /\ \/ \A a \in Holders :
                 lamports'[a] =
                   lamports[a]
                   + (((IF a = escrow[k].seller THEN PaidOut(k) ELSE 0)
                       + (IF a = k[1] THEN lamports[k] - PaidOut(k) ELSE 0))
                      + (IF a = k THEN - lamports[k] ELSE 0))
            \/ /\ now >= escrow[k].deadline
               /\ \A a \in Holders :
                    lamports'[a] =
                      lamports[a] + ((IF a = k[1] THEN lamports[k] ELSE 0)
                                     + (IF a = k THEN - lamports[k] ELSE 0))
<1>0. lamports[k] >= Rent + escrow[k].amount
  BY DEF Inv, Backed
<1>1. CASE escrow'[k] = escrow[k]
  BY <1>1 DEF IsOpen
<1>2. CASE lamports' = Released(k)
  BY <1>0, <1>2, ReleasedLedger
<1>3. CASE CanRefund(k) /\ lamports' = Refunded(k)
  BY <1>0, <1>3, RefundedLedger DEF CanRefund
<1>. QED
  BY <1>1, <1>2, <1>3, StepCases

-----------------------------------------------------------------------------
(***************************************************************************)
(* The program implements Settlement.                                      *)
(***************************************************************************)
View == [k \in Addresses |-> OrderView(k)]

\* An instruction touches the view of one order only.
LEMMA ViewOfOne ==
  ASSUME Inv, NEW k \in Addresses, now' = now,
         \A j \in Addresses \ {k} : escrow'[j] = escrow[j] /\ closed'[j] = closed[j]
  PROVE  View' = [View EXCEPT ![k] = OrderView(k)']
<1>1. \A j \in Addresses \ {k} : OrderView(j)' = OrderView(j)
  BY DEF OrderView, IsOpen
<1>. QED
  BY <1>1 DEF View

LEMMA InitializeOpens ==
  ASSUME Inv, NEW k \in Addresses, NEW seller \in Sellers,
         NEW amount \in Nat, NEW deadline \in Int,
         ~ IsOpen(k), deadline > now,
         CreateEscrow(k, seller, amount, deadline), now' = now
  PROVE  AbstractSettlement!Open(k, seller)
<1>1. ~ AbstractSettlement!Locked(k)
  BY DEF AbstractSettlement!Locked, OrderView, Inv, TypeOK, Settled, IsOpen
<1>2. escrow'[k] = [seller |-> seller, amount |-> amount, deadline |-> deadline]
  BY DEF CreateEscrow, Inv, TypeOK
<1>3. escrow'[k] # NoEscrow
  BY <1>2, NoEscrowAssumption DEF EscrowAccount
<1>4. OrderView(k)' = [payee |-> seller, place |-> "open"]
  BY <1>2, <1>3, now \in Int DEF OrderView, IsOpen, Inv, TypeOK
<1>5. View' = [View EXCEPT ![k] = [payee |-> seller, place |-> "open"]]
  BY <1>4, ViewOfOne DEF CreateEscrow, Inv, TypeOK
<1>. QED
  BY <1>1, <1>5 DEF AbstractSettlement!Open, View

LEMMA OpenView ==
  ASSUME Inv, NEW k \in Addresses, IsOpen(k)
  PROVE  /\ AbstractSettlement!Locked(k)
         /\ View[k] = [payee |-> escrow[k].seller,
                       place |-> IF now >= escrow[k].deadline
                                 THEN "matured" ELSE "open"]
<1>1. View[k] = [payee |-> escrow[k].seller,
                 place |-> IF now >= escrow[k].deadline
                           THEN "matured" ELSE "open"]
  BY DEF View, OrderView
<1>2. escrow[k].seller \in Sellers
  BY OpenAccount DEF Inv, EscrowAccount
<1>3. View[k] \in [payee: Sellers,
                   place: {"open", "matured", "paid", "returned"}]
  BY <1>1, <1>2
<1>. QED
  BY <1>1, <1>3, NoEscrowAssumption DEF AbstractSettlement!Locked, View

LEMMA CloseMoves ==
  ASSUME Inv, NEW k \in Addresses, IsOpen(k), NEW place \in {"paid", "returned"},
         CloseEscrow(k, place), now' = now
  PROVE  /\ AbstractSettlement!Locked(k)
         /\ AbstractSettlement!Move(k, place)
         /\ now >= escrow[k].deadline => View[k].place = "matured"
<1>2. View[k] = [payee |-> escrow[k].seller,
                 place |-> IF now >= escrow[k].deadline
                           THEN "matured" ELSE "open"]
  BY OpenView
<1>3. OrderView(k)' = [payee |-> escrow[k].seller, place |-> place]
  BY DEF CloseEscrow, OrderView, IsOpen, Inv, TypeOK
<1>4. View' = [View EXCEPT ![k] = [payee |-> escrow[k].seller, place |-> place]]
  BY <1>3, ViewOfOne DEF CloseEscrow, Inv, TypeOK
<1>5. [View[k] EXCEPT !.place = place]
        = [payee |-> escrow[k].seller, place |-> place]
  BY <1>2
<1>6. AbstractSettlement!Move(k, place)
  BY <1>4, <1>5 DEF AbstractSettlement!Move, View
<1>7. now >= escrow[k].deadline => View[k].place = "matured"
  BY <1>2
<1>. QED
  BY OpenView, <1>6, <1>7

LEMMA TickMatures ==
  ASSUME Inv, Tick
  PROVE  \E S \in SUBSET AbstractSettlement!Unripe : AbstractSettlement!Mature(S)
<1>. DEFINE S == {k \in Addresses : IsOpen(k) /\ now < escrow[k].deadline
                                   /\ now' >= escrow[k].deadline}
<1>1. now \in Int /\ now' = now + 1
  BY DEF Inv, TypeOK, Tick
<1>2. \A k \in S : AbstractSettlement!Locked(k) /\ View[k].place = "open"
  <2>. SUFFICES ASSUME NEW k \in S
                PROVE  AbstractSettlement!Locked(k) /\ View[k].place = "open"
    OBVIOUS
  <2>1. escrow[k].deadline \in Int
    BY OpenAccount DEF Inv
  <2>2. /\ AbstractSettlement!Locked(k)
        /\ View[k] = [payee |-> escrow[k].seller,
                      place |-> IF now >= escrow[k].deadline
                                THEN "matured" ELSE "open"]
    BY OpenView
  <2>. QED
    BY <2>1, <2>2, <1>1
<1>3. ASSUME NEW k \in S
      PROVE  OrderView(k)' = [OrderView(k) EXCEPT !.place = "matured"]
  <2>1. escrow[k].deadline \in Int
    BY OpenAccount DEF Inv
  <2>. QED
    BY <2>1, <1>1 DEF OrderView, IsOpen, Tick
<1>4. ASSUME NEW k \in Addresses \ S
      PROVE  OrderView(k)' = OrderView(k)
  <2>1. CASE IsOpen(k)
    <3>1. escrow[k].deadline \in Int
      BY <2>1, OpenAccount DEF Inv
    <3>. QED
      BY <3>1, <2>1, <1>1 DEF OrderView, IsOpen, Tick
  <2>2. CASE ~ IsOpen(k)
    BY <2>2 DEF OrderView, IsOpen, Tick
  <2>. QED
    BY <2>1, <2>2
<1>5. View' = [o \in Addresses |-> IF o \in S
                                   THEN [View[o] EXCEPT !.place = "matured"]
                                   ELSE View[o]]
  BY <1>3, <1>4 DEF View
<1>6. S \subseteq AbstractSettlement!Unripe
  BY <1>2 DEF AbstractSettlement!Unripe, View
<1>. HIDE DEF S
<1>7. AbstractSettlement!Mature(S)
  BY <1>5, <1>6 DEF AbstractSettlement!Mature, View
<1>. QED
  BY <1>6, <1>7

LEMMA InstructionRefines ==
  ASSUME Inv, NEW buyer \in Accounts, Instruction(buyer)
  PROVE  AbstractSettlement!Next
<1>1. ASSUME NEW reference \in References, NEW seller \in Sellers,
             NEW amount \in Amounts, NEW deadline \in Deadlines,
             Initialize(buyer, seller, reference, amount, deadline)
      PROVE  AbstractSettlement!Open(<<buyer, reference>>, seller)
  BY <1>1, InitializeOpens, EscrowAssumption
  DEF Initialize, CanInitialize, Addresses
<1>2. ASSUME NEW reference \in References, NEW seller \in Sellers,
             Release(buyer, seller, reference)
      PROVE  AbstractSettlement!Pay(<<buyer, reference>>)
  BY <1>2, CloseMoves DEF Release, CanRelease, AbstractSettlement!Pay, Addresses
<1>3. ASSUME NEW reference \in References, Refund(buyer, reference)
      PROVE  AbstractSettlement!Return(<<buyer, reference>>)
  BY <1>3, CloseMoves
  DEF Refund, CanRefund, AbstractSettlement!Return, View, Addresses
<1>. QED
  BY <1>1, <1>2, <1>3 DEF Instruction, AbstractSettlement!Next, Addresses

LEMMA TickRefines ==
  ASSUME Inv, Tick
  PROVE  AbstractSettlement!Next
BY TickMatures DEF AbstractSettlement!Next

LEMMA StutterRefines ==
  ASSUME UNCHANGED <<escrow, now, closed>>
  PROVE  View' = View
BY DEF View, OrderView, IsOpen

LEMMA InitRefines == Init => AbstractSettlement!Init
BY DEF Init, AbstractSettlement!Init, OrderView, IsOpen

\* The escrow program implements Settlement: each deposit is settled once, to
\* the seller it named, or goes back to its buyer after the deadline.
THEOREM EscrowImplementsSettlement == Spec => ImplementsSettlement
<1>1. Inv /\ [Next]_escrowVars => [AbstractSettlement!Next]_View
  BY InstructionRefines, TickRefines, StutterRefines DEF Next, escrowVars
<1>. QED
  BY InitRefines, Invariance, <1>1, PTL
  DEF Spec, ImplementsSettlement, AbstractSettlement!Spec, View
=============================================================================
