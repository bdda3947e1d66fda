--------------------------------- MODULE Feed ---------------------------------
(***************************************************************************)
(* The marketplace feed (examples/marketplace/feed/src/foldRounds.ts): the *)
(* transcript of a session folded, message by message, into the rounds the *)
(* dashboard shows.  It keeps nothing between two requests.                *)
(*                                                                         *)
(* A message is a record with the verb and the fields this fold reads.     *)
(***************************************************************************)
EXTENDS Naturals, Sequences, SequencesExt

CONSTANTS Rounds, Nobody

Stages == {"recon", "analysis", "reporting"}
NoBids == [s \in {} |-> 0]
NewRound == [bids |-> NoBids, award |-> Nobody, amount |-> 0, deposits |-> 0, authz |-> "none",
             stages |-> [st \in Stages |-> "none"], status |-> "bidding",
             delivered |-> FALSE, released |-> FALSE, refunded |-> FALSE]

\* The first bid of a seller is the one that is shown.
foldBid(r, m) ==
  IF m.by \in DOMAIN r.bids THEN r
  ELSE [r EXCEPT !.bids = [s \in DOMAIN r.bids \cup {m.by} |->
                             IF s = m.by THEN m.price ELSE r.bids[s]]]

foldAward(r, m) ==
  [r EXCEPT !.award = m.to, !.status = IF @ = "bidding" THEN "awarded" ELSE @]

\* A variant in which any later message sets the status.
LastStatus(r, status) == [r EXCEPT !.status = status]

unlessSettled(r, status) == [r EXCEPT !.status = IF @ = "settled" THEN @ ELSE status]

\* The last status of a stage wins.
foldProgress(r, m) == [r EXCEPT !.stages[m.stage] = m.status]

foldMessage(rounds, m) ==
  LET r == rounds[m.round]
  IN  [rounds EXCEPT ![m.round] =
         CASE m.verb = "BID" -> foldBid(r, m)
           [] m.verb = "AWARD" -> foldAward(r, m)
           [] m.verb = "ESCROW_REQUIRED" -> [r EXCEPT !.amount = m.price]
           [] m.verb = "DEPOSITED" -> [unlessSettled(r, "deposited") EXCEPT !.deposits = @ + 1]
           [] m.verb = "AUTHZ_RESULT" -> [r EXCEPT !.authz = m.status]
           [] m.verb = "DELIVERY_PROGRESS" -> foldProgress(r, m)
           [] m.verb = "DELIVERED" -> [unlessSettled(r, "delivered") EXCEPT !.delivered = TRUE]
           [] m.verb = "RELEASED" -> [r EXCEPT !.status = "settled", !.released = TRUE]
           [] m.verb = "REFUNDED" -> [r EXCEPT !.status = "refunded", !.refunded = TRUE]
           [] OTHER -> r]

foldRounds(messages) == FoldLeft(foldMessage, [r \in Rounds |-> NewRound], messages)

\* The sellers of the roster that did not bid, once the bidding is over.
declined(round, roster) ==
  IF round.status = "bidding" THEN {} ELSE roster \ DOMAIN round.bids

\* coralState.ts: thread after thread, not in the order of time.
collectMessages(threads) == FlattenSeq(threads)
===============================================================================
