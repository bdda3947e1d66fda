------------------------------- MODULE Arbiter ------------------------------
(***************************************************************************)
(* The arbiter program (programs/arbiter/src/lib.rs) over the escrow       *)
(* program.  `open` moves a payer's money through a vault, an address only *)
(* this program can sign for, into an escrow whose buyer is the vault; from *)
(* then on only the configured arbiter can release or refund.  Each of     *)
(* these is one transaction that calls the escrow's handler (its CPI).     *)
(* Wallets can also use the escrow program directly, as in the market's    *)
(* `direct` settlement mode, so both programs run side by side here.       *)
(* Neither the seller of an order nor the account a refund is swept to is  *)
(* checked by the program: both may be any key, vaults included.           *)
(***************************************************************************)
EXTENDS Escrow

CONSTANTS
  VaultOf,    \* the vault derived from each reference
  NoConfig,   \* the config account does not exist
  NoSigner    \* nothing was signed yet

ASSUME VaultAssumption ==
  /\ VaultOf \in [References -> Accounts]
  /\ \A r1, r2 \in References : VaultOf[r1] = VaultOf[r2] => r1 = r2
  /\ NoConfig \notin Accounts
  /\ NoSigner \notin Holders

Vaults  == {VaultOf[r] : r \in References}
Wallets == Accounts \ Vaults

VARIABLES
  config,   \* the arbiter the config account names, or NoConfig
  signer,   \* history: who signed the last transaction
  payerOf   \* history: who paid for the open order of each reference

arbiterVars == <<escrow, lamports, now, closed, config, signer, payerOf>>

\* The address of the escrow an arbitrated order lives in.
VaultEscrow(r) == <<VaultOf[r], r>>

ArbiterTypeOK ==
  /\ TypeOK
  /\ config \in Wallets \cup {NoConfig}
  /\ signer \in Wallets \cup {NoSigner}
  /\ payerOf \in [References -> Wallets \cup {NoSigner}]

ArbiterInit ==
  /\ Init
  /\ config = NoConfig
  /\ signer = NoSigner
  /\ payerOf = [r \in References |-> NoSigner]
-----------------------------------------------------------------------------
\* One-time: the config account is created by `init`, so it fails when the
\* arbiter has been recorded already.  That account's rent, which the admin pays,
\* is left out of the ledger.
InitConfig(admin, arbiter) ==
  /\ config = NoConfig
  /\ config' = arbiter
  /\ signer' = admin
  /\ UNCHANGED <<escrow, lamports, now, closed, payerOf>>

\* What `open` leaves on record: the vault's order is paid for by `payer`.
FundedBy(payer, reference) ==
  /\ signer' = payer
  /\ payerOf' = [payerOf EXCEPT ![reference] = payer]
  /\ UNCHANGED <<now, config>>

\* A variant that does not check what the payer can spend.
OpenUnpaid(payer, seller, reference, amount, deadline) ==
  LET k      == VaultEscrow(reference)
      funded == Transfer(lamports, payer, k[1], amount + Rent)
  IN
  /\ CanInitialize(funded, k, amount, deadline)
  /\ CreateEscrow(k, seller, amount, deadline)
  /\ lamports' = Initialized(funded, k, amount)
  /\ FundedBy(payer, reference)

\* A variant that funds the deposit and not the rent.
OpenRentFree(payer, seller, reference, amount, deadline) ==
  LET k      == VaultEscrow(reference)
      funded == Transfer(lamports, payer, k[1], amount)
  IN
  /\ lamports[payer] >= amount
  /\ CanInitialize(funded, k, amount, deadline)
  /\ CreateEscrow(k, seller, amount, deadline)
  /\ lamports' = Initialized(funded, k, amount)
  /\ FundedBy(payer, reference)

\* The payer funds the vault with the deposit and the rent; the vault then
\* signs as the buyer of the escrow and pays both out of what it holds.
Open(payer, seller, reference, amount, deadline) ==
  LET fund   == amount + Rent
      k      == VaultEscrow(reference)
      funded == Transfer(lamports, payer, k[1], fund)
  IN
  /\ fund <= MaxLamports
  /\ lamports[payer] >= fund
  /\ CanInitialize(funded, k, amount, deadline)
  /\ CreateEscrow(k, seller, amount, deadline)
  /\ lamports' = Initialized(funded, k, amount)
  /\ FundedBy(payer, reference)

\* A variant that does not compare the signer with the config account.
IsAnyone(wallet) == config # NoConfig

IsArbiter(wallet) == config # NoConfig /\ wallet = config

\* What either arbitrate instruction leaves on record.
SettledBy(arbiter, reference) ==
  /\ signer' = arbiter
  /\ payerOf' = [payerOf EXCEPT ![reference] = NoSigner]
  /\ UNCHANGED <<now, config>>

\* The arbiter attests delivery.  The escrow returns its rent to its buyer,
\* the vault, where it stays.
ArbitrateRelease(arbiter, seller, reference) ==
  LET k == VaultEscrow(reference) IN
  /\ IsArbiter(arbiter)
  /\ CanRelease(k, seller)
  /\ CloseEscrow(k, "paid")
  /\ lamports' = Released(k)
  /\ SettledBy(arbiter, reference)

\* The escrow refunds its buyer, the vault, and everything the vault then
\* holds is swept to the account passed as `payer`, whichever that is.
ArbitrateRefund(arbiter, payer, reference) ==
  LET k     == VaultEscrow(reference)
      vault == VaultOf[reference]
      back  == Refunded(k)
  IN
  /\ IsArbiter(arbiter)
  /\ CanRefund(k)
  /\ CloseEscrow(k, "returned")
  /\ lamports' = Transfer(back, vault, payer, back[vault])
  /\ SettledBy(arbiter, reference)

ArbiterTick == Tick /\ UNCHANGED <<config, signer, payerOf>>

\* A wallet uses the escrow program without the arbiter.
DirectInstruction(wallet) ==
  /\ Instruction(wallet)
  /\ signer' = wallet
  /\ UNCHANGED <<config, payerOf>>

ArbitratedInstruction(wallet) ==
  \/ \E arbiter \in Wallets : InitConfig(wallet, arbiter)
  \/ \E reference \in References :
       \/ \E seller \in Sellers, amount \in Amounts, deadline \in Deadlines :
            Open(wallet, seller, reference, amount, deadline)
       \/ \E seller \in Sellers : ArbitrateRelease(wallet, seller, reference)
       \/ \E payer \in Holders : ArbitrateRefund(wallet, payer, reference)

ArbiterNext ==
  \/ ArbiterTick
  \/ \E wallet \in Wallets :
       DirectInstruction(wallet) \/ ArbitratedInstruction(wallet)

ArbiterSpec == ArbiterInit /\ [][ArbiterNext]_arbiterVars
-----------------------------------------------------------------------------
(***************************************************************************)
(* Properties.                                                             *)
(***************************************************************************)

\* The payer of an arbitrated order has no power over its money, and neither
\* has its seller: the escrow of a vault is closed only by a transaction the
\* configured arbiter signed.
OnlyArbiterSettles ==
  [][\A r \in References :
       LET k == VaultEscrow(r) IN
       IsOpen(k) /\ ~ IsOpen(k)' => config # NoConfig /\ signer' = config
    ]_arbiterVars

\* What a vault holds belongs to its own order.  Opening any order, releasing
\* it or refunding another one takes nothing out of a vault, though `open` pays
\* for the escrow out of the vault; it only loses lamports when its own escrow
\* is refunded, by the configured arbiter and after the deadline, and what the
\* escrow held leaves with them.
VaultsKeepTheirOwn ==
  [][\A r \in References :
       LET k == VaultEscrow(r) IN
       lamports'[VaultOf[r]] < lamports[VaultOf[r]] =>
         /\ IsOpen(k) /\ ~ IsOpen(k)'
         /\ now >= escrow[k].deadline
         /\ config # NoConfig /\ signer' = config
         /\ lamports'[VaultOf[r]] = 0
    ]_arbiterVars

\* When an escrow that a wallet opened for itself is closed, its deposit goes to
\* the seller named when it was made, or everything goes back to the wallet after
\* the deadline, whoever the seller is and whatever others have sent to the
\* address (escrow lib.rs:70-98).  The arbiter changes nothing in that.
DepositLeavesWhole ==
  [][\A k \in Wallets \X References : IsOpen(k) /\ ~ IsOpen(k)' => LeavesWhole(k)
    ]_arbiterVars

\* When an arbitrated order is settled, either its seller gets the deposit and
\* its vault the rest, or the deadline has passed and one account, the one the
\* arbiter passes, gets everything the escrow and the vault held.  No other
\* account gains or loses a lamport.  The account may be the vault itself, which
\* then keeps it all.
VaultDepositLeavesWhole ==
  [][\A r \in References :
       LET k          == VaultEscrow(r)
           vault      == VaultOf[r]
           held       == lamports[k]
           paid       == IF escrow[k].seller = k THEN 0 ELSE escrow[k].amount
           Leaving(a) == IF a = k THEN - held ELSE 0
           Payout(a)  == (IF a = escrow[k].seller THEN paid ELSE 0)
                         + (IF a = vault THEN held - paid ELSE 0) + Leaving(a)
           Sweep(payer, a) ==
             (IF a = payer THEN held + lamports[vault] ELSE 0)
             + (IF a = vault THEN - lamports[vault] ELSE 0) + Leaving(a)
       IN
       IsOpen(k) /\ ~ IsOpen(k)' =>
         \/ Gains(Payout)
         \/ /\ now >= escrow[k].deadline
            /\ \E payer \in Holders : Gains(LAMBDA a : Sweep(payer, a))
    ]_arbiterVars

\* The program's comments promise that a refunded order goes back to whoever
\* paid for it ("funds swept back to the payer", lib.rs:11; "the original payer -
\* receives the swept refund", lib.rs:214).  Nothing records the payer, so the
\* program does not keep to it.
RefundReachesPayer ==
  [][\A r \in References :
       LET k == VaultEscrow(r) IN
       IsOpen(k) /\ ~ IsOpen(k)' /\ closed'[k].place = "returned" =>
         lamports'[payerOf[r]] >= lamports[payerOf[r]] + escrow[k].amount
    ]_arbiterVars
=============================================================================
