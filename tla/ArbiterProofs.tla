---------------------------- MODULE ArbiterProofs ---------------------------
(***************************************************************************)
(* Proofs about the arbiter program running beside the escrow program, for *)
(* any wallets, vaults, references, sellers, amounts, deadlines and rent.  *)
(***************************************************************************)
EXTENDS Arbiter, EscrowProofs

\* The escrow's own invariant and the types of what the arbiter adds.
ArbiterInv == ArbiterTypeOK /\ Inv

LEMMA VaultFacts ==
  ASSUME NEW r \in References
  PROVE  /\ VaultOf[r] \in Accounts
         /\ VaultOf[r] \in Holders
         /\ VaultOf[r] \notin Wallets
         /\ VaultEscrow(r) \in Addresses
         /\ VaultEscrow(r) \in Holders
         /\ VaultEscrow(r)[1] = VaultOf[r]
         /\ VaultOf[r] # VaultEscrow(r)
<1>1. /\ VaultOf[r] \in Accounts /\ VaultOf[r] \notin Wallets
      /\ VaultEscrow(r) \in Addresses /\ VaultEscrow(r)[1] = VaultOf[r]
  BY VaultAssumption DEF Wallets, Vaults, VaultEscrow, Addresses
<1>. QED
  BY <1>1, AddressFacts

LEMMA WalletFacts ==
  /\ Wallets \subseteq Accounts
  /\ NoConfig \notin Wallets
  /\ \A a \in Wallets : a \in Holders /\ a \notin Addresses
BY VaultAssumption, EscrowAssumption DEF Wallets, Holders

\* After `open` has funded the vault, the vault can pay for the escrow and
\* loses nothing of what it held before; only the payer does.
LEMMA OpenLedger ==
  ASSUME ArbiterInv, NEW payer \in Wallets, NEW reference \in References,
         NEW seller \in Sellers, NEW amount \in Amounts, NEW deadline \in Deadlines,
         Open(payer, seller, reference, amount, deadline)
  PROVE  /\ Inv' /\ SumKept
         /\ \A a \in Accounts \ {payer} : lamports'[a] >= lamports[a]
<1>1. PICK k, v, fund, f : /\ k = VaultEscrow(reference) /\ v = VaultOf[reference]
                           /\ fund = amount + Rent
                           /\ f = Transfer(lamports, payer, v, fund)
  OBVIOUS
<1>2. /\ k \in Addresses /\ k \in Holders /\ k[1] = v /\ v # k
      /\ payer \in Holders /\ payer \notin Addresses /\ v \in Accounts /\ v \in Holders
      /\ v \notin Addresses /\ payer # v
  BY <1>1, VaultFacts, WalletFacts, EscrowAssumption
<1>3. /\ amount \in Nat /\ deadline \in Int /\ Rent \in Nat /\ fund \in Nat
      /\ lamports \in [Holders -> Nat] /\ lamports[payer] >= fund
  BY <1>1, EscrowAssumption DEF ArbiterInv, Inv, TypeOK, Open
<1>4. /\ f \in [Holders -> Nat] /\ SumFunction(f) = SumFunction(lamports)
      /\ \A a \in Holders :
           f[a] = lamports[a] + ((IF a = payer THEN - fund ELSE 0)
                                 + (IF a = v THEN fund ELSE 0))
  BY <1>1, <1>2, <1>3, Transferred
<1>5. \A a \in Holders : lamports[a] \in Nat
  BY <1>3
<1>6. \A j \in Addresses : f[j] = lamports[j]
  BY <1>2, <1>4, <1>5, AddressFacts
<1>7. /\ CanInitialize(f, k, amount, deadline)
      /\ CreateEscrow(k, seller, amount, deadline)
      /\ lamports' = Initialized(f, k, amount) /\ now' = now
  BY <1>1, <1>2 DEF Open, FundedBy
<1>8. Inv' /\ SumFunction(lamports') = SumFunction(f)
  BY <1>2, <1>3, <1>4, <1>6, <1>7, InitializeKeeps DEF ArbiterInv
<1>9. /\ lamports'[v] = f[v] - (Topup(f, k) + amount)
      /\ \A a \in Holders \ {k, v} : lamports'[a] = f[a]
  BY <1>2, <1>3, <1>4, <1>7, InitializedLedger DEF CanInitialize
<1>10. lamports'[v] >= lamports[v]
  <2>1. Topup(f, k) \in Nat /\ Topup(f, k) <= Rent
    BY <1>2, <1>4, TopupNat
  <2>2. f[v] = lamports[v] + fund /\ lamports[v] \in Nat
    BY <1>2, <1>3, <1>4, <1>5
  <2>. QED
    BY <1>1, <1>3, <1>9, <2>1, <2>2
<1>11. ASSUME NEW a \in Accounts \ {payer, v}
       PROVE  lamports'[a] >= lamports[a]
  <2>1. a \in Holders /\ a # k
    BY <1>2, EscrowAssumption DEF Holders
  <2>2. lamports'[a] = f[a] /\ f[a] = lamports[a] + 0 /\ lamports[a] \in Nat
    BY <2>1, <1>4, <1>5, <1>9, <1>11
  <2>. QED
    BY <2>2
<1>. QED
  BY <1>4, <1>8, <1>10, <1>11 DEF SumKept

\* What a refund leaves: `payer` has all that the escrow and the vault held, and
\* the vault is empty unless it is the payer.
LEMMA SweptLedger ==
  ASSUME ArbiterInv, NEW payer \in Holders, NEW reference \in References,
         NEW arbiter, ArbitrateRefund(arbiter, payer, reference)
  PROVE  LET k     == VaultEscrow(reference)
             vault == VaultOf[reference]
         IN  /\ lamports' \in [Holders -> Nat] /\ SumKept
             /\ \A a \in Holders :
                  lamports'[a] =
                    lamports[a]
                    + (((IF a = payer THEN lamports[k] + lamports[vault] ELSE 0)
                        + (IF a = vault THEN - lamports[vault] ELSE 0))
                       + (IF a = k THEN - lamports[k] ELSE 0))
<1>1. PICK k, v, f : k = VaultEscrow(reference) /\ v = VaultOf[reference] /\ f = lamports
  OBVIOUS
<1>2. /\ k \in Addresses /\ k \in Holders /\ k[1] = v /\ v \in Holders /\ v # k /\ IsOpen(k)
      /\ f \in [Holders -> Nat] /\ Inv
  BY <1>1, VaultFacts DEF ArbitrateRefund, CanRefund, ArbiterInv, Inv, TypeOK
<1>3. PICK g, n, h : g = Refunded(k) /\ n = g[v] /\ h = Transfer(g, v, payer, n)
  OBVIOUS
<1>4. lamports' = h
  BY <1>1, <1>3 DEF ArbitrateRefund
<1>5. /\ g \in [Holders -> Nat] /\ SumFunction(g) = SumFunction(f)
      /\ \A a \in Holders :
           g[a] = f[a] + ((IF a = v THEN f[k] ELSE 0) + (IF a = k THEN - f[k] ELSE 0))
  BY <1>1, <1>2, <1>3, RefundedLedger
<1>6. f[v] \in Nat /\ f[k] \in Nat /\ n \in Nat /\ n = f[v] + f[k] /\ g[v] >= n
  BY <1>2, <1>3, <1>5
<1>7. /\ h \in [Holders -> Nat] /\ SumFunction(h) = SumFunction(g)
      /\ \A a \in Holders :
           h[a] = g[a] + ((IF a = v THEN - n ELSE 0) + (IF a = payer THEN n ELSE 0))
  <2>1. v \in Holders /\ g \in [Holders -> Nat] /\ n \in Nat /\ g[v] >= n
    BY <1>2, <1>5, <1>6
  <2>2. /\ Transfer(g, v, payer, n) \in [Holders -> Nat]
        /\ SumFunction(Transfer(g, v, payer, n)) = SumFunction(g)
        /\ \A a \in Holders :
             Transfer(g, v, payer, n)[a] =
               g[a] + ((IF a = v THEN - n ELSE 0) + (IF a = payer THEN n ELSE 0))
    BY <2>1, Transferred
  <2>. QED
    BY <2>2, <1>3
<1>8. \A a \in Holders : f[a] \in Nat
  BY <1>2
<1>9. \A a \in Holders :
        h[a] = f[a] + (((IF a = payer THEN f[k] + f[v] ELSE 0)
                        + (IF a = v THEN - f[v] ELSE 0))
                       + (IF a = k THEN - f[k] ELSE 0))
  BY <1>2, <1>5, <1>6, <1>7, <1>8
<1>. QED
  BY <1>1, <1>4, <1>5, <1>7, <1>9 DEF SumKept
-----------------------------------------------------------------------------
\* One lemma per instruction of the arbiter.
LEMMA OpenKeepsInv ==
  ASSUME ArbiterInv, NEW payer \in Wallets, NEW reference \in References,
         NEW seller \in Sellers, NEW amount \in Amounts, NEW deadline \in Deadlines,
         Open(payer, seller, reference, amount, deadline)
  PROVE  ArbiterInv' /\ SumKept
<1>1. Inv' /\ SumKept
  BY OpenLedger
<1>. QED
  BY <1>1 DEF ArbiterInv, ArbiterTypeOK, Open, FundedBy, Inv

LEMMA ArbitrateReleaseKeepsInv ==
  ASSUME ArbiterInv, NEW arbiter \in Wallets, NEW reference \in References,
         NEW seller \in Sellers, ArbitrateRelease(arbiter, seller, reference)
  PROVE  ArbiterInv' /\ SumKept
<1>1. Inv' /\ SumKept
  BY ReleaseKeeps, VaultFacts DEF ArbiterInv, ArbitrateRelease, SettledBy, CanRelease
<1>. QED
  BY <1>1 DEF ArbiterInv, ArbiterTypeOK, ArbitrateRelease, SettledBy, Inv

LEMMA ArbitrateRefundKeepsInv ==
  ASSUME ArbiterInv, NEW arbiter \in Wallets, NEW reference \in References,
         NEW payer \in Holders, ArbitrateRefund(arbiter, payer, reference)
  PROVE  ArbiterInv' /\ SumKept
<1>1. PICK k, v : k = VaultEscrow(reference) /\ v = VaultOf[reference]
  OBVIOUS
<1>2. /\ k \in Addresses /\ IsOpen(k) /\ CloseEscrow(k, "returned")
      /\ now' = now /\ v \notin Addresses /\ Inv /\ lamports \in [Holders -> Nat] /\ now \in Int
  BY <1>1, VaultFacts, EscrowAssumption
  DEF ArbiterInv, ArbitrateRefund, SettledBy, CanRefund, Inv, TypeOK
<1>3. lamports' \in [Holders -> Nat] /\ SumKept
  BY SweptLedger
<1>4. ASSUME NEW j \in Addresses \ {k}
      PROVE  lamports'[j] >= lamports[j]
  <2>1. j \in Holders /\ j # v /\ k \in Holders /\ v \in Holders
    BY <1>1, <1>2, AddressFacts, VaultFacts
  <2>2. lamports[j] \in Nat /\ lamports[k] \in Nat /\ lamports[v] \in Nat
    BY <1>2, <2>1
  <2>3. lamports'[j] =
          lamports[j] + (((IF j = payer THEN lamports[k] + lamports[v] ELSE 0)
                          + (IF j = v THEN - lamports[v] ELSE 0))
                         + (IF j = k THEN - lamports[k] ELSE 0))
    BY <1>1, <2>1, SweptLedger
  <2>. QED
    BY <1>4, <2>1, <2>2, <2>3
<1>5. Inv'
  BY <1>2, <1>3, <1>4, CloseKeepsInv
<1>. QED
  BY <1>3, <1>5 DEF ArbiterInv, ArbiterTypeOK, ArbitrateRefund, SettledBy, Inv

LEMMA ArbiterNextKeepsInv ==
  ASSUME ArbiterInv, [ArbiterNext]_arbiterVars
  PROVE  ArbiterInv' /\ SumKept
<1>1. CASE ArbiterTick
  BY <1>1, IdleKeeps DEF ArbiterTick, ArbiterInv, ArbiterTypeOK, Inv
<1>2. ASSUME NEW wallet \in Wallets, DirectInstruction(wallet)
      PROVE  ArbiterInv' /\ SumKept
  BY <1>2, InstructionKeeps, WalletFacts
  DEF DirectInstruction, ArbiterInv, ArbiterTypeOK, Inv
<1>3. ASSUME NEW wallet \in Wallets, NEW arbiter \in Wallets,
             InitConfig(wallet, arbiter)
      PROVE  ArbiterInv' /\ SumKept
  BY <1>3, IdleKeeps
  DEF InitConfig, ArbiterInv, ArbiterTypeOK, escrowVars, Inv
<1>4. CASE UNCHANGED arbiterVars
  BY <1>4, IdleKeeps DEF arbiterVars, escrowVars, ArbiterInv, ArbiterTypeOK, Inv
<1>. QED
  BY <1>1, <1>2, <1>3, <1>4,
     OpenKeepsInv, ArbitrateReleaseKeepsInv, ArbitrateRefundKeepsInv
  DEF ArbiterNext, ArbitratedInstruction

LEMMA ArbiterInvariance == ArbiterSpec => [](ArbiterInv /\ Balanced)
<1>1. ArbiterInit => ArbiterInv /\ Balanced
  BY InitInv DEF ArbiterInit, ArbiterInv, ArbiterTypeOK, Inv
<1>2. ArbiterInv /\ Balanced /\ [ArbiterNext]_arbiterVars => ArbiterInv' /\ Balanced'
  BY ArbiterNextKeepsInv DEF Balanced, SumKept
<1>. QED
  BY <1>1, <1>2, PTL DEF ArbiterSpec

\* Both programs keep their state well typed.
THEOREM ArbiterTypeCorrect == ArbiterSpec => []ArbiterTypeOK
<1>1. ArbiterInv => ArbiterTypeOK
  BY DEF ArbiterInv
<1>. QED
  BY ArbiterInvariance, <1>1, PTL

\* With the arbiter as without it no lamport is made or lost, so the release
\* of an arbitrated order, too, never fails on its seller's balance.
THEOREM ArbitratedLamportsAreConserved == ArbiterSpec => []LamportsConserved
<1>1. ArbiterInv /\ Balanced => LamportsConserved
  BY BalancedPays DEF ArbiterInv, LamportsConserved, Balanced
<1>. QED
  BY ArbiterInvariance, <1>1, PTL
-----------------------------------------------------------------------------
(***************************************************************************)
(* Who settles an arbitrated order.  A wallet that uses the escrow program *)
(* directly works on the addresses derived from its own key, never on      *)
(* those of a vault.                                                       *)
(***************************************************************************)
LEMMA DirectLeavesVaults ==
  ASSUME ArbiterInv, NEW wallet \in Wallets, DirectInstruction(wallet),
         NEW r \in References
  PROVE  escrow'[VaultEscrow(r)] = escrow[VaultEscrow(r)]
<1>1. ASSUME NEW q \in References
      PROVE  <<wallet, q>> # VaultEscrow(r)
  BY VaultFacts DEF VaultEscrow
<1>2. PICK q \in References :
        escrow' = [escrow EXCEPT ![<<wallet, q>>] = escrow'[<<wallet, q>>]]
  <2>1. ASSUME NEW q \in References, NEW seller \in Sellers,
               NEW amount \in Amounts, NEW deadline \in Deadlines,
               Initialize(wallet, seller, q, amount, deadline)
        PROVE  escrow' = [escrow EXCEPT ![<<wallet, q>>] = escrow'[<<wallet, q>>]]
    BY <2>1 DEF Initialize, CreateEscrow, ArbiterInv, ArbiterTypeOK, TypeOK
  <2>2. ASSUME NEW q \in References, NEW seller \in Sellers,
               Release(wallet, seller, q)
        PROVE  escrow' = [escrow EXCEPT ![<<wallet, q>>] = escrow'[<<wallet, q>>]]
    BY <2>2 DEF Release, CloseEscrow, ArbiterInv, ArbiterTypeOK, TypeOK
  <2>3. ASSUME NEW q \in References, Refund(wallet, q)
        PROVE  escrow' = [escrow EXCEPT ![<<wallet, q>>] = escrow'[<<wallet, q>>]]
    BY <2>3 DEF Refund, CloseEscrow, ArbiterInv, ArbiterTypeOK, TypeOK
  <2>. QED
    BY <2>1, <2>2, <2>3 DEF DirectInstruction, Instruction
<1>. QED
  BY <1>1, <1>2, VaultFacts DEF ArbiterInv, ArbiterTypeOK, TypeOK

LEMMA OtherVaultsKept ==
  ASSUME NEW r \in References, NEW q \in References,
         VaultEscrow(q) = VaultEscrow(r)
  PROVE  q = r
BY DEF VaultEscrow

\* An arbitrated order is closed by one of the two arbitrate instructions.
LEMMA SettlingStep ==
  ASSUME ArbiterInv, [ArbiterNext]_arbiterVars,
         NEW r \in References, IsOpen(VaultEscrow(r)), ~ IsOpen(VaultEscrow(r))'
  PROVE  \E arbiter \in Wallets :
           \/ \E seller \in Sellers : ArbitrateRelease(arbiter, seller, r)
           \/ \E payer \in Holders : ArbitrateRefund(arbiter, payer, r)
<1>. DEFINE k == VaultEscrow(r)
<1>0. escrow'[k] # escrow[k] /\ escrow'[k] = NoEscrow
  BY DEF IsOpen
<1>. USE DEF ArbiterInv, ArbiterTypeOK, TypeOK
<1>1. ASSUME NEW payer \in Wallets, NEW q \in References, NEW seller \in Sellers,
             NEW amount \in Amounts, NEW deadline \in Deadlines,
             Open(payer, seller, q, amount, deadline)
      PROVE  FALSE
  BY <1>0, <1>1 DEF Open, CanInitialize, CreateEscrow, IsOpen
<1>2. ASSUME NEW wallet \in Wallets, DirectInstruction(wallet)
      PROVE  FALSE
  BY <1>0, <1>2, DirectLeavesVaults
<1>3. ASSUME NEW arbiter \in Wallets, NEW q \in References, NEW seller \in Sellers,
             ArbitrateRelease(arbiter, seller, q)
      PROVE  ArbitrateRelease(arbiter, seller, r)
  <2>1. VaultEscrow(q) = k
    BY <1>0, <1>3 DEF ArbitrateRelease, CloseEscrow
  <2>. QED
    BY <2>1, <1>3, OtherVaultsKept
<1>4. ASSUME NEW arbiter \in Wallets, NEW q \in References, NEW payer \in Holders,
             ArbitrateRefund(arbiter, payer, q)
      PROVE  ArbitrateRefund(arbiter, payer, r)
  <2>1. VaultEscrow(q) = k
    BY <1>0, <1>4 DEF ArbitrateRefund, CloseEscrow
  <2>. QED
    BY <2>1, <1>4, OtherVaultsKept
<1>5. ~ ArbiterTick /\ ~ UNCHANGED arbiterVars
  BY <1>0 DEF ArbiterTick, Tick, arbiterVars
<1>6. ASSUME NEW wallet \in Wallets, NEW arbiter \in Wallets,
             InitConfig(wallet, arbiter)
      PROVE  FALSE
  BY <1>0, <1>6 DEF InitConfig
<1>. QED
  BY <1>1, <1>2, <1>3, <1>4, <1>5, <1>6 DEF ArbiterNext, ArbitratedInstruction

\* Only the configured arbiter closes the escrow of a vault.
THEOREM ArbiterSettles == ArbiterSpec => OnlyArbiterSettles
<1>1. ArbiterInv /\ [ArbiterNext]_arbiterVars =>
        [\A r \in References :
           LET k == VaultEscrow(r) IN
           IsOpen(k) /\ ~ IsOpen(k)' => config # NoConfig /\ signer' = config
        ]_arbiterVars
  BY SettlingStep DEF ArbitrateRelease, ArbitrateRefund, SettledBy, IsArbiter
<1>. QED
  BY ArbiterInvariance, <1>1, PTL DEF ArbiterSpec, OnlyArbiterSettles

LEMMA SettlingLeavesWhole ==
  ASSUME ArbiterInv, [ArbiterNext]_arbiterVars,
         NEW r \in References, IsOpen(VaultEscrow(r)), ~ IsOpen(VaultEscrow(r))'
  PROVE  LET k     == VaultEscrow(r)
             vault == VaultOf[r]
         IN
         \/ \A a \in Holders :
              lamports'[a] =
                lamports[a]
                + (((IF a = escrow[k].seller THEN PaidOut(k) ELSE 0)
                    + (IF a = vault THEN lamports[k] - PaidOut(k) ELSE 0))
                   + (IF a = k THEN - lamports[k] ELSE 0))
         \/ /\ now >= escrow[k].deadline
            /\ \E payer \in Holders : \A a \in Holders :
                 lamports'[a] =
                   lamports[a]
                   + (((IF a = payer THEN lamports[k] + lamports[vault] ELSE 0)
                       + (IF a = vault THEN - lamports[vault] ELSE 0))
                      + (IF a = k THEN - lamports[k] ELSE 0))
<1>1. VaultEscrow(r) \in Addresses /\ VaultEscrow(r)[1] = VaultOf[r] /\ Inv
  BY VaultFacts DEF ArbiterInv
<1>2. ASSUME NEW arbiter \in Wallets, NEW seller \in Sellers,
             ArbitrateRelease(arbiter, seller, r)
      PROVE  \A a \in Holders :
               lamports'[a] =
                 lamports[a]
                 + (((IF a = escrow[VaultEscrow(r)].seller THEN PaidOut(VaultEscrow(r)) ELSE 0)
                     + (IF a = VaultOf[r]
                        THEN lamports[VaultEscrow(r)] - PaidOut(VaultEscrow(r)) ELSE 0))
                    + (IF a = VaultEscrow(r) THEN - lamports[VaultEscrow(r)] ELSE 0))
  BY <1>1, <1>2, ReleasedLedger DEF ArbitrateRelease
<1>3. ASSUME NEW arbiter \in Wallets, NEW payer \in Holders,
             ArbitrateRefund(arbiter, payer, r)
      PROVE  now >= escrow[VaultEscrow(r)].deadline
  BY <1>3 DEF ArbitrateRefund, CanRefund
<1>. QED
  BY <1>2, <1>3, SweptLedger, SettlingStep

\* The arbitrate instructions close no escrow of a wallet.
LEMMA ArbitratedKeepsWallets ==
  ASSUME ArbiterInv, NEW wallet \in Wallets, ArbitratedInstruction(wallet),
         NEW k \in Wallets \X References, IsOpen(k)
  PROVE  IsOpen(k)'
<1>1. \A r \in References : VaultEscrow(r) # k
  BY VaultFacts DEF VaultEscrow
<1>2. escrow \in [Addresses -> EscrowAccount \cup {NoEscrow}] /\ k \in Addresses
  BY WalletFacts DEF ArbiterInv, Inv, TypeOK, Addresses
<1>3. ASSUME NEW arbiter \in Wallets, InitConfig(wallet, arbiter)
      PROVE  escrow'[k] = escrow[k]
  BY <1>3 DEF InitConfig
<1>4. ASSUME NEW r \in References, NEW seller \in Sellers,
             NEW amount \in Amounts, NEW deadline \in Deadlines,
             Open(wallet, seller, r, amount, deadline)
      PROVE  escrow'[k] = escrow[k]
  BY <1>1, <1>2, <1>4 DEF Open, CreateEscrow
<1>5. ASSUME NEW r \in References, NEW seller \in Sellers,
             ArbitrateRelease(wallet, seller, r)
      PROVE  escrow'[k] = escrow[k]
  BY <1>1, <1>2, <1>5 DEF ArbitrateRelease, CloseEscrow
<1>6. ASSUME NEW r \in References, NEW payer \in Holders,
             ArbitrateRefund(wallet, payer, r)
      PROVE  escrow'[k] = escrow[k]
  BY <1>1, <1>2, <1>6 DEF ArbitrateRefund, CloseEscrow
<1>. QED
  BY <1>3, <1>4, <1>5, <1>6 DEF ArbitratedInstruction, IsOpen

\* Closing a wallet's own escrow moves the whole deposit to its seller and the
\* rest to the wallet or, once the deadline has passed, everything to the wallet,
\* whatever keys these are and whatever others have sent to the escrow's address.
THEOREM DepositsLeaveWhole == ArbiterSpec => DepositLeavesWhole
<1>1. ASSUME ArbiterInv, [ArbiterNext]_arbiterVars,
             NEW k \in Wallets \X References, IsOpen(k), ~ IsOpen(k)'
      PROVE  LeavesWhole(k)
  <2>1. [Next]_escrowVars
    BY <1>1, ArbitratedKeepsWallets, WalletFacts
    DEF ArbiterNext, ArbiterTick, DirectInstruction, Next, arbiterVars, escrowVars
  <2>2. k \in Addresses /\ Inv
    BY <1>1, WalletFacts DEF Addresses, ArbiterInv
  <2>. QED
    BY <1>1, <2>1, <2>2, ClosingLeavesWhole DEF LeavesWhole, Gains, PaidOut
<1>2. ArbiterInv /\ [ArbiterNext]_arbiterVars =>
        [\A k \in Wallets \X References :
           IsOpen(k) /\ ~ IsOpen(k)' => LeavesWhole(k)]_arbiterVars
  BY <1>1
<1>. QED
  BY ArbiterInvariance, <1>2, PTL DEF ArbiterSpec, DepositLeavesWhole

\* Settling an arbitrated order moves the whole deposit to its seller or, once
\* the deadline has passed, everything the escrow and the vault hold to the one
\* account the arbiter passes, whatever keys seller and that account are.
THEOREM VaultDepositsLeaveWhole == ArbiterSpec => VaultDepositLeavesWhole
<1>1. ArbiterInv /\ [ArbiterNext]_arbiterVars =>
        [\A r \in References :
           LET k          == VaultEscrow(r)
               vault      == VaultOf[r]
               held       == lamports[k]
               paid       == IF escrow[k].seller = k THEN 0 ELSE escrow[k].amount
               Leaving(a) == IF a = k THEN - held ELSE 0
               Payout(a)  == (IF a = escrow[k].seller THEN paid ELSE 0)
                             + (IF a = vault THEN held - paid ELSE 0) + Leaving(a)
               Sweep(payer, a) ==
                 (IF a = payer THEN held + lamports[vault] ELSE 0)
                 + (IF a = vault THEN - lamports[vault] ELSE 0) + Leaving(a)
           IN
           IsOpen(k) /\ ~ IsOpen(k)' =>
             \/ Gains(Payout)
             \/ /\ now >= escrow[k].deadline
                /\ \E payer \in Holders : Gains(LAMBDA a : Sweep(payer, a))
        ]_arbiterVars
  BY SettlingLeavesWhole DEF Gains, PaidOut
<1>. QED
  BY ArbiterInvariance, <1>1, PTL DEF ArbiterSpec, VaultDepositLeavesWhole

\* A wallet that uses the escrow program directly takes nothing from a vault,
\* though it may name the vault as a seller.
LEMMA DirectLeavesVaultLamports ==
  ASSUME ArbiterInv, NEW wallet \in Wallets, DirectInstruction(wallet),
         NEW r \in References
  PROVE  lamports'[VaultOf[r]] >= lamports[VaultOf[r]]
<1>1. PICK v : v = VaultOf[r]
  OBVIOUS
<1>2. /\ Inv /\ v \in Holders /\ v \notin Addresses /\ v # wallet /\ wallet \in Accounts
      /\ lamports \in [Holders -> Nat] /\ lamports[v] \in Nat
  BY <1>1, VaultFacts, WalletFacts, EscrowAssumption DEF ArbiterInv, Inv, TypeOK
<1>3. ASSUME NEW q \in References, NEW seller \in Sellers,
             NEW amount \in Amounts, NEW deadline \in Deadlines,
             Initialize(wallet, seller, q, amount, deadline)
      PROVE  lamports'[v] >= lamports[v]
  <2>1. PICK k : k = <<wallet, q>>
    OBVIOUS
  <2>2. /\ k \in Addresses /\ k[1] = wallet /\ amount \in Nat
        /\ lamports[k[1]] >= Topup(lamports, k) + amount
        /\ lamports' = Initialized(lamports, k, amount)
    BY <1>2, <1>3, <2>1, EscrowAssumption DEF Initialize, CanInitialize, Addresses
  <2>3. \A a \in Holders \ {k, k[1]} : lamports'[a] = lamports[a]
    BY <1>2, <2>2, InitializedLedger
  <2>. QED
    BY <1>2, <2>2, <2>3
<1>4. ASSUME NEW q \in References, NEW seller \in Sellers,
             Release(wallet, seller, q)
      PROVE  lamports'[v] >= lamports[v]
  BY <1>2, <1>4, ReleasedLedger DEF Release, CanRelease, Addresses
<1>5. ASSUME NEW q \in References, Refund(wallet, q)
      PROVE  lamports'[v] >= lamports[v]
  BY <1>2, <1>5, RefundedLedger DEF Refund, CanRefund, Addresses
<1>. QED
  BY <1>1, <1>3, <1>4, <1>5 DEF DirectInstruction, Instruction

LEMMA RefundEmptiesOneVault ==
  ASSUME ArbiterInv, NEW arbiter, NEW payer \in Holders, NEW q \in References,
         ArbitrateRefund(arbiter, payer, q), NEW r \in References,
         lamports'[VaultOf[r]] < lamports[VaultOf[r]]
  PROVE  q = r /\ lamports'[VaultOf[r]] = 0
<1>1. PICK k, u, v : k = VaultEscrow(q) /\ u = VaultOf[q] /\ v = VaultOf[r]
  OBVIOUS
<1>2. /\ k \in Holders /\ u \in Holders /\ v \in Holders /\ k # v /\ k # u
      /\ lamports \in [Holders -> Nat]
  BY <1>1, VaultFacts, EscrowAssumption DEF ArbiterInv, Inv, TypeOK
<1>3. lamports[k] \in Nat /\ lamports[u] \in Nat /\ lamports[v] \in Nat
  BY <1>2
<1>4. lamports'[v] =
        lamports[v] + (((IF v = payer THEN lamports[k] + lamports[u] ELSE 0)
                        + (IF v = u THEN - lamports[u] ELSE 0))
                       + (IF v = k THEN - lamports[k] ELSE 0))
  BY <1>1, <1>2, SweptLedger
<1>5. v = u /\ lamports'[v] = 0
  BY <1>1, <1>2, <1>3, <1>4
<1>6. q = r
  BY <1>1, <1>5, VaultAssumption
<1>. QED
  BY <1>1, <1>5, <1>6

LEMMA VaultLoses ==
  ASSUME ArbiterInv, [ArbiterNext]_arbiterVars, NEW r \in References,
         lamports'[VaultOf[r]] < lamports[VaultOf[r]]
  PROVE  LET k == VaultEscrow(r) IN
         /\ IsOpen(k) /\ ~ IsOpen(k)'
         /\ now >= escrow[k].deadline
         /\ config # NoConfig /\ signer' = config
         /\ lamports'[VaultOf[r]] = 0
<1>1. PICK v : v = VaultOf[r]
  OBVIOUS
<1>2. /\ Inv /\ v \in Holders /\ v \in Accounts /\ v \notin Addresses /\ v \notin Wallets
      /\ lamports \in [Holders -> Nat] /\ lamports[v] \in Nat
      /\ lamports'[v] < lamports[v]
  BY <1>1, VaultFacts, EscrowAssumption DEF ArbiterInv, Inv, TypeOK
<1>3. ASSUME NEW payer \in Wallets, NEW q \in References, NEW seller \in Sellers,
             NEW amount \in Amounts, NEW deadline \in Deadlines,
             Open(payer, seller, q, amount, deadline)
      PROVE  FALSE
  <2>1. lamports'[v] >= lamports[v] /\ lamports'[v] \in Nat
    BY <1>2, <1>3, OpenLedger DEF Inv, TypeOK
  <2>. QED
    BY <1>2, <2>1
<1>4. ASSUME NEW arbiter \in Wallets, NEW q \in References, NEW seller \in Sellers,
             ArbitrateRelease(arbiter, seller, q)
      PROVE  FALSE
  <2>1. PICK k : k = VaultEscrow(q)
    OBVIOUS
  <2>2. k \in Addresses /\ IsOpen(k) /\ lamports' = Released(k)
    BY <1>4, <2>1, VaultFacts DEF ArbitrateRelease, CanRelease
  <2>3. lamports'[v] >= lamports[v] /\ lamports'[v] \in Nat
    BY <1>2, <2>2, ReleasedLedger
  <2>. QED
    BY <1>2, <2>3
<1>5. ASSUME NEW arbiter \in Wallets, NEW q \in References, NEW payer \in Holders,
             ArbitrateRefund(arbiter, payer, q)
      PROVE  /\ IsOpen(VaultEscrow(r)) /\ ~ IsOpen(VaultEscrow(r))'
             /\ now >= escrow[VaultEscrow(r)].deadline
             /\ config # NoConfig /\ signer' = config
             /\ lamports'[VaultOf[r]] = 0
  <2>1. q = r /\ lamports'[VaultOf[r]] = 0
    BY <1>5, RefundEmptiesOneVault
  <2>2. VaultEscrow(r) \in Addresses
    BY VaultFacts
  <2>. QED
    BY <1>5, <2>1, <2>2
    DEF ArbitrateRefund, SettledBy, CanRefund, CloseEscrow, IsOpen, IsArbiter, ArbiterInv, Inv, TypeOK
<1>6. CASE lamports' = lamports
  BY <1>2, <1>6
<1>7. ASSUME NEW wallet \in Wallets, DirectInstruction(wallet)
      PROVE  FALSE
  <2>1. lamports'[v] >= lamports[v] /\ lamports'[v] \in Nat
    BY <1>1, <1>2, <1>7, DirectLeavesVaultLamports, InstructionKeeps, WalletFacts
    DEF DirectInstruction, Inv, TypeOK
  <2>. QED
    BY <1>2, <2>1
<1>8. ASSUME ArbiterTick \/ UNCHANGED arbiterVars
             \/ \E wallet, arbiter \in Wallets : InitConfig(wallet, arbiter)
      PROVE  lamports' = lamports
  BY <1>8 DEF ArbiterTick, Tick, arbiterVars, InitConfig
<1>. QED
  BY <1>3, <1>4, <1>5, <1>6, <1>7, <1>8 DEF ArbiterNext, ArbitratedInstruction

\* A vault loses lamports only in the refund of its own order, by the arbiter.
THEOREM VaultsGiveOnlyRefunds == ArbiterSpec => VaultsKeepTheirOwn
<1>1. ArbiterInv /\ [ArbiterNext]_arbiterVars =>
        [\A r \in References :
           LET k == VaultEscrow(r) IN
           lamports'[VaultOf[r]] < lamports[VaultOf[r]] =>
             /\ IsOpen(k) /\ ~ IsOpen(k)'
             /\ now >= escrow[k].deadline
             /\ config # NoConfig /\ signer' = config
             /\ lamports'[VaultOf[r]] = 0
        ]_arbiterVars
  BY VaultLoses
<1>. QED
  BY ArbiterInvariance, <1>1, PTL DEF ArbiterSpec, VaultsKeepTheirOwn
-----------------------------------------------------------------------------
\* The two programs side by side still implement Settlement.
LEMMA ArbiterStepRefines ==
  ASSUME ArbiterInv, [ArbiterNext]_arbiterVars
  PROVE  [AbstractSettlement!Next]_View
<1>0. Inv
  BY DEF ArbiterInv
<1>1. CASE ArbiterTick
  BY <1>0, <1>1, TickRefines DEF ArbiterTick
<1>2. ASSUME NEW wallet \in Wallets, DirectInstruction(wallet)
      PROVE  AbstractSettlement!Next
  BY <1>0, <1>2, InstructionRefines, WalletFacts DEF DirectInstruction
<1>3. ASSUME NEW payer \in Wallets, NEW q \in References, NEW seller \in Sellers,
             NEW amount \in Amounts, NEW deadline \in Deadlines,
             Open(payer, seller, q, amount, deadline)
      PROVE  AbstractSettlement!Open(VaultEscrow(q), seller)
  BY <1>0, <1>3, InitializeOpens, VaultFacts, EscrowAssumption
  DEF Open, CanInitialize, FundedBy
<1>4. ASSUME NEW arbiter \in Wallets, NEW q \in References, NEW seller \in Sellers,
             ArbitrateRelease(arbiter, seller, q)
      PROVE  AbstractSettlement!Pay(VaultEscrow(q))
  BY <1>0, <1>4, CloseMoves, VaultFacts
  DEF ArbitrateRelease, SettledBy, CanRelease, AbstractSettlement!Pay
<1>5. ASSUME NEW arbiter \in Wallets, NEW q \in References, NEW payer \in Holders,
             ArbitrateRefund(arbiter, payer, q)
      PROVE  AbstractSettlement!Return(VaultEscrow(q))
  BY <1>0, <1>5, CloseMoves, VaultFacts
  DEF ArbitrateRefund, SettledBy, CanRefund, AbstractSettlement!Return, View
<1>6. ASSUME NEW wallet \in Wallets, NEW arbiter \in Wallets,
             InitConfig(wallet, arbiter)
      PROVE  View' = View
  BY <1>6, StutterRefines DEF InitConfig
<1>7. CASE UNCHANGED arbiterVars
  BY <1>7, StutterRefines DEF arbiterVars
<1>. QED
  BY <1>1, <1>2, <1>3, <1>4, <1>5, <1>6, <1>7, VaultFacts
  DEF ArbiterNext, ArbitratedInstruction, AbstractSettlement!Next

\* Arbitrated and direct orders alike are settled once, to the seller they
\* named or, after the deadline, back to the side that funded them.
THEOREM ArbiterImplementsSettlement == ArbiterSpec => ImplementsSettlement
<1>1. ArbiterInit => AbstractSettlement!Init
  BY InitRefines DEF ArbiterInit
<1>. QED
  BY <1>1, ArbiterInvariance, ArbiterStepRefines, PTL
  DEF ArbiterSpec, ImplementsSettlement, AbstractSettlement!Spec, View
=============================================================================
