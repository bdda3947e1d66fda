------------------------------ MODULE MCArbiter -----------------------------
(***************************************************************************)
(* Both programs with two wallets, either of which may become the arbiter, *)
(* and two references with their vaults.  An order may name as its seller  *)
(* a wallet, the vault of the first reference or the escrow of that vault. *)
(* What the payer has is enough for two orders at a time.                  *)
(***************************************************************************)
EXTENDS Arbiter

CONSTANTS b, s, r, q, v, w

MCSellers == {s, v, <<v, r>>}
MCLamports == [a \in Holders |-> IF a = b THEN 4 ELSE 0]
MCVaultOf == [x \in References |-> IF x = r THEN v ELSE w]
=============================================================================
