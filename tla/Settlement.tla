----------------------------- MODULE Settlement -----------------------------
(***************************************************************************)
(* What a settlement path promises about one order, whichever program      *)
(* holds the money: an order is opened once at a time, and what it locks   *)
(* leaves in exactly one of two ways, paid to the payee or returned to the *)
(* side that funded it; it is returned only after it has matured (its      *)
(* deadline has passed).  The on-chain escrow program, the arbiter wrapper *)
(* around it and the market's settlement calls are all meant to implement  *)
(* this.                                                                   *)
(***************************************************************************)
CONSTANTS
  Orders,   \* the orders a deposit can be made for
  Payees,   \* who an order can name as its payee
  NoOrder   \* the state of an order that was never opened

VARIABLE order   \* order[o]: NoOrder, or the payee and where the money is

Places == {"open", "matured", "paid", "returned"}

OrderState == [payee: Payees, place: Places] \cup {NoOrder}

TypeOK == order \in [Orders -> OrderState]

Locked(o) == order[o] # NoOrder /\ order[o].place \in {"open", "matured"}

Move(o, place) == order' = [order EXCEPT ![o].place = place]
-----------------------------------------------------------------------------
Init == order = [o \in Orders |-> NoOrder]

\* The money of a new order is locked for its payee.  An order that was
\* settled may be opened again: the account that held it is gone.
Open(o, payee) ==
  /\ ~ Locked(o)
  /\ order' = [order EXCEPT ![o] = [payee |-> payee, place |-> "open"]]

\* The orders whose deadline has not passed.
Unripe == {o \in Orders : Locked(o) /\ order[o].place = "open"}

\* The deadlines of some of them pass.
Mature(S) ==
  /\ S \subseteq Unripe
  /\ order' = [o \in Orders |->
                 IF o \in S THEN [order[o] EXCEPT !.place = "matured"]
                            ELSE order[o]]

Pay(o) == Locked(o) /\ Move(o, "paid")

Return(o) == Locked(o) /\ order[o].place = "matured" /\ Move(o, "returned")

Next ==
  \/ \E o \in Orders, payee \in Payees : Open(o, payee)
  \/ \E S \in SUBSET Unripe : Mature(S)
  \/ \E o \in Orders : Pay(o) \/ Return(o)

Spec == Init /\ [][Next]_order
=============================================================================
